---------------------------- MODULE Spec2Model ----------------------------
(***************************************************************************)
(* Analytics reconciliation and cache engine of the farm dashboard:       *)
(* the FarmDashboard view (in-memory cache flushed to IndexedDB), the     *)
(* FarmInsights view (read-merge-write on the same IndexedDB blob), the   *)
(* coordinate resolver and the analytics normalizers.                     *)
(*                                                                         *)
(* JavaScript values are tagged pairs <<tag, payload>>.  Numbers are      *)
(* fixed-point integers in hundredths (26.85 is 2685).  A JavaScript      *)
(* object is a sequence of <<key, value>> pairs in insertion order.       *)
(* Cache keys are sequences of tokens ("f", "_", "d1", ...), so that      *)
(* concatenation and startsWith are computed, not assumed.                *)
(***************************************************************************)
EXTENDS Integers, Sequences, FiniteSets, TLC

(***************************************************************************)
(* JavaScript values                                                       *)
(***************************************************************************)
Undef == <<"undef", 0>>
Null == <<"null", 0>>
NaN == <<"nan", 0>>
Throw == <<"throw", 0>>
Num(n) == <<"num", n>>
Str(s) == <<"str", s>>
Arr(s) == <<"arr", s>>
Obj(o) == <<"obj", o>>

Tag(v) == v[1]
Val(v) == v[2]

\* JavaScript truthiness
Truthy(v) ==
    CASE Tag(v) \in {"undef", "null", "nan", "throw"} -> FALSE
      [] Tag(v) = "num" -> Val(v) # 0
      [] Tag(v) = "str" -> Val(v) # ""
      [] OTHER -> TRUE

\* typeof v === "object" (null and arrays included)
TypeofObject(v) == Tag(v) \in {"obj", "arr", "null"}

IsNaN(v) == Tag(v) = "nan"

(***************************************************************************)
(* Objects as ordered key/value sequences                                  *)
(***************************************************************************)
Has(o, k) == \E i \in 1..Len(o) : o[i][1] = k
Get(o, k) == IF Has(o, k) THEN o[CHOOSE i \in 1..Len(o) : o[i][1] = k][2] ELSE Undef
Put(o, k, v) ==
    IF Has(o, k)
    THEN [i \in 1..Len(o) |-> IF o[i][1] = k THEN <<k, v>> ELSE o[i]]
    ELSE Append(o, <<k, v>>)
Keys(o) == [i \in 1..Len(o) |-> o[i][1]]

\* k in v, for a value v that is an object or an array
In(k, v) == Tag(v) = "obj" /\ Has(Val(v), k)

\* k in v throws a TypeError: v is a primitive
InThrows(v) == Tag(v) \notin {"obj", "arr"}

\* v.k / v[k] for a value v and a property name k
Prop(v, k) ==
    CASE Tag(v) = "obj" -> Get(Val(v), k)
      [] Tag(v) \in {"null", "undef"} -> Throw
      [] OTHER -> Undef

\* v[i] for a value v and a 0-based index i
Index(v, i) ==
    CASE Tag(v) = "arr" -> IF i + 1 \in 1..Len(Val(v)) THEN Val(v)[i + 1] ELSE Undef
      [] Tag(v) \in {"null", "undef"} -> Throw
      [] OTHER -> Undef

\* Number(v)
Number(v) ==
    CASE Tag(v) = "num" -> v
      [] Tag(v) = "null" -> Num(0)
      [] Tag(v) = "str" -> IF Val(v) = "" THEN Num(0) ELSE NaN
      [] Tag(v) = "arr" ->
            IF Len(Val(v)) = 0 THEN Num(0)
            ELSE IF Len(Val(v)) = 1 /\ Tag(Val(v)[1]) = "num" THEN Val(v)[1]
            ELSE NaN
      [] Tag(v) = "throw" -> Throw
      [] OTHER -> NaN

\* Array.prototype.map over a sequence, a throwing callback aborts the map
AnyThrow(s) == \E i \in 1..Len(s) : s[i] = Throw
MapResult(s) == IF AnyThrow(s) THEN Throw ELSE Arr(s)

(***************************************************************************)
(* Coordinate Order Resolver (dashboard)                                   *)
(***************************************************************************)
LatMax == 9000
LngMax == 18000

\* a heuristic that leaves out the bounds themselves
LooksLatLngInside(a, b) ==
    /\ Val(a) > -LatMax /\ Val(a) < LatMax
    /\ Val(b) > -LngMax /\ Val(b) < LngMax

\* the first pair (a, b) reads as (lat, lng)
LooksLatLng(a, b) ==
    /\ Val(a) >= -LatMax /\ Val(a) <= LatMax
    /\ Val(b) >= -LngMax /\ Val(b) <= LngMax

\* [Number(p[i]), Number(p[j])], throwing when p is null or undefined
PairOf(p, i, j) ==
    IF Index(p, i) = Throw THEN Throw
    ELSE Arr(<<Number(Index(p, i)), Number(Index(p, j))>>)

\* a pair built the other way round
PairOfPropsUnswapped(pt, k1, k2) ==
    IF Prop(pt, k1) = Throw THEN Throw
    ELSE Arr(<<Number(Prop(pt, k2)), Number(Prop(pt, k1))>>)

\* [Number(pt.k1), Number(pt.k2)], throwing when pt is null or undefined
PairOfProps(pt, k1, k2) ==
    IF Prop(pt, k1) = Throw THEN Throw
    ELSE Arr(<<Number(Prop(pt, k1)), Number(Prop(pt, k2))>>)

\* Object.keys(pt).map(k => Number(pt[k])).filter(v => !isNaN(v))
NumericFields(pt) ==
    LET vals == CASE Tag(pt) = "obj" -> [i \in 1..Len(Val(pt)) |-> Number(Val(pt)[i][2])]
                  [] Tag(pt) = "arr" -> [i \in 1..Len(Val(pt)) |-> Number(Val(pt)[i])]
                  [] OTHER -> <<>>
        NotNaN(v) == ~IsNaN(v)
    IN SelectSeq(vals, NotNaN)

\* fallback of the object branch: two numeric fields, first lat, second lng
GuessPair(pt) ==
    IF Tag(pt) \in {"null", "undef"} THEN Throw
    ELSE LET nums == NumericFields(pt)
         IN IF Len(nums) >= 2 THEN Arr(<<nums[2], nums[1]>>) ELSE Arr(<<>>)

HasTwo(p) == Tag(p) = "arr" /\ Len(Val(p)) = 2

\* the nested-array branch applies: first element an array of two numbers
FirstIsNumericPair(cs) ==
    /\ Len(cs) > 0
    /\ Tag(cs[1]) = "arr"
    /\ ~IsNaN(Number(Index(cs[1], 0)))
    /\ ~IsNaN(Number(Index(cs[1], 1)))

\* JSON.parse(text) of the texts the resolver is given, throwing a
\* SyntaxError on text that is no JSON
JSONparse(text) ==
    CASE text = "[[23.01,72.5],[23.02,72.51]]" ->
            Arr(<< Arr(<<Num(2301), Num(7250)>>), Arr(<<Num(2302), Num(7251)>>) >>)
      [] text = "[null]" -> Arr(<<Null>>)
      [] text = "null" -> Null
      [] OTHER -> Throw

\* text.includes(",")
includesComma(text) ==
    text \in {"[[23.01,72.5],[23.02,72.51]]", "23.01,72.5;23.02,72.51", "north,east"}

\* text.split(";").map(p => p.trim()).map(pr => pr.split(",").map(Number))
SplitNumbers(text) ==
    CASE text = "23.01,72.5;23.02,72.51" ->
            << <<Num(2301), Num(7250)>>, <<Num(2302), Num(7251)>> >>
      [] text = "north,east" -> << <<NaN, NaN>> >>
      [] OTHER -> << <<NaN>> >>

\* const [a, b] = ...; return [b, a]
SwappedPart(nums) ==
    Arr(<< IF Len(nums) >= 2 THEN nums[2] ELSE Undef,
           IF Len(nums) >= 1 THEN nums[1] ELSE Undef >>)

RECURSIVE parseCoords(_)
parseCoords(coords) ==
    IF ~Truthy(coords) THEN Arr(<<>>)
    ELSE IF Tag(coords) = "str"
    THEN LET parsed == JSONparse(Val(coords))
             inner == IF parsed = Throw THEN Throw ELSE parseCoords(parsed)
         IN IF inner # Throw THEN inner
            ELSE IF includesComma(Val(coords))
            THEN Arr([i \in 1..Len(SplitNumbers(Val(coords))) |->
                         SwappedPart(SplitNumbers(Val(coords))[i])])
            ELSE Arr(<<>>)
    ELSE IF Tag(coords) = "obj" /\ Has(Val(coords), "latitude") /\ Has(Val(coords), "longitude")
    THEN Arr(<< Arr(<<Get(Val(coords), "longitude"), Get(Val(coords), "latitude")>>) >>)
    ELSE IF Tag(coords) = "arr"
    THEN LET cs == Val(coords)
         IN IF FirstIsNumericPair(cs)
            THEN IF LooksLatLng(Number(Index(cs[1], 0)), Number(Index(cs[1], 1)))
                 THEN MapResult([i \in 1..Len(cs) |-> PairOf(cs[i], 1, 0)])
                 ELSE MapResult([i \in 1..Len(cs) |-> PairOf(cs[i], 0, 1)])
            ELSE IF Len(cs) > 0 /\ TypeofObject(cs[1])
            THEN IF Tag(cs[1]) = "null" THEN Throw
                 ELSE IF In("lat", cs[1]) /\ In("lng", cs[1])
                 THEN MapResult([i \in 1..Len(cs) |-> PairOfProps(cs[i], "lng", "lat")])
                 ELSE IF In("latitude", cs[1]) /\ In("longitude", cs[1])
                 THEN MapResult([i \in 1..Len(cs) |-> PairOfProps(cs[i], "longitude", "latitude")])
                 ELSE LET guessed == [i \in 1..Len(cs) |-> GuessPair(cs[i])]
                      IN IF AnyThrow(guessed) THEN Throw
                         ELSE Arr(SelectSeq(guessed, HasTwo))
            ELSE coords
    ELSE Arr(<<>>)

(***************************************************************************)
(* Metric Series Normalizer (dashboard)                                    *)
(***************************************************************************)
KelvinThreshold == 10000
KelvinOffset == 27315

\* { ...v }: own enumerable properties of v
Spread(v) ==
    CASE Tag(v) = "obj" -> Val(v)
      [] Tag(v) = "arr" -> [i \in 1..Len(Val(v)) |-> <<ToString(i - 1), Val(v)[i]>>]
      [] OTHER -> <<>>

IsArray(v) == Tag(v) = "arr"

\* v.length is truthy
HasLength(v) ==
    CASE Tag(v) = "arr" -> Len(Val(v)) > 0
      [] Tag(v) = "str" -> Val(v) # ""
      [] Tag(v) = "obj" -> Truthy(Get(Val(v), "length"))
      [] OTHER -> FALSE

\* a promotion that takes the nested array whatever out[key] holds
PromoteAlways(out, key, group, inner) ==
    IF Truthy(Get(out, group)) /\ IsArray(Prop(Get(out, group), inner))
    THEN Put(out, key, Prop(Get(out, group), inner))
    ELSE out

\* location promotion: out[key] takes out[group][inner] when it is an array
\* and out[key] is absent or empty
Promote(out, key, group, inner) ==
    IF /\ (~Truthy(Get(out, key)) \/ ~HasLength(Get(out, key)))
       /\ Truthy(Get(out, group))
       /\ IsArray(Prop(Get(out, group), inner))
    THEN Put(out, key, Prop(Get(out, group), inner))
    ELSE out

\* the first field, in key order, that is not "date" and whose Number() is
\* not NaN; Null when there is none
RECURSIVE FirstNumericFrom(_, _)
FirstNumericFrom(fields, i) ==
    IF i > Len(fields) THEN Null
    ELSE IF fields[i][1] # "date" /\ ~IsNaN(Number(fields[i][2]))
    THEN Number(fields[i][2])
    ELSE FirstNumericFrom(fields, i + 1)

FirstNumeric(d) == FirstNumericFrom(Spread(d), 1)

\* the value read through the ordered list of accepted names, else the
\* first numeric field
RECURSIVE ReadNamed(_, _, _)
ReadNamed(d, names, i) ==
    IF i > Len(names) THEN FirstNumeric(d)
    ELSE IF In(names[i], d) THEN Number(Prop(d, names[i]))
    ELSE ReadNamed(d, names, i + 1)

\* a conversion that also takes exactly 100 for Kelvin
KelvinToCelsiusFrom100(val) ==
    IF Val(val) >= KelvinThreshold THEN Num(Val(val) - KelvinOffset) ELSE val

\* if (val > 100) val = val - 273.15
KelvinToCelsius(val) ==
    IF Val(val) > KelvinThreshold THEN Num(Val(val) - KelvinOffset) ELSE val

\* one sample of a temperature-like family; keep: a sample without a
\* numeric value is returned as it is, else as {date, outKey: null}
TempSample(d, names, outKey, keep) ==
    IF ~Truthy(d) THEN d
    ELSE IF InThrows(d) THEN Throw
    ELSE LET val == ReadNamed(d, names, 1)
         IN IF Tag(val) \in {"null", "nan"}
            THEN IF keep THEN d
                 ELSE Obj(<< <<"date", Prop(d, "date")>>, <<outKey, Null>> >>)
            ELSE Obj(<< <<"date", Prop(d, "date")>>, <<outKey, KelvinToCelsius(val)>> >>)

\* a rainfall callback that reads a large rain value as Kelvin
RainSampleConverted(d) ==
    IF ~Truthy(d) THEN d
    ELSE IF InThrows(d) THEN Throw
    ELSE IF In("rain_mm", d) THEN d
    ELSE IF In("rain", d)
    THEN Obj(<< <<"date", Prop(d, "date")>>,
                <<"rain_mm", KelvinToCelsius(Number(Prop(d, "rain")))>> >>)
    ELSE Obj(<< <<"date", Prop(d, "date")>>, <<"rain_mm", FirstNumeric(d)>> >>)

\* one sample of the rainfall family
RainSample(d) ==
    IF ~Truthy(d) THEN d
    ELSE IF InThrows(d) THEN Throw
    ELSE IF In("rain_mm", d) THEN d
    ELSE IF In("rain", d)
    THEN Obj(<< <<"date", Prop(d, "date")>>, <<"rain_mm", Number(Prop(d, "rain"))>> >>)
    ELSE Obj(<< <<"date", Prop(d, "date")>>, <<"rain_mm", FirstNumeric(d)>> >>)

TempFamily(out, key, names, outKey, keep) ==
    IF IsArray(Get(out, key))
    THEN LET arr == Val(Get(out, key))
             mapped == [i \in 1..Len(arr) |-> TempSample(arr[i], names, outKey, keep)]
         IN IF AnyThrow(mapped) THEN <<Throw>> ELSE Put(out, key, Arr(mapped))
    ELSE Put(out, key, Arr(<<>>))

RainFamily(out) ==
    IF IsArray(Get(out, "rainfall"))
    THEN LET arr == Val(Get(out, "rainfall"))
             mapped == [i \in 1..Len(arr) |-> RainSample(arr[i])]
         IN IF AnyThrow(mapped) THEN <<Throw>> ELSE Put(out, "rainfall", Arr(mapped))
    ELSE Put(out, "rainfall", Arr(<<>>))

\* a list that misses soil_moisture
expectedArraysWithoutSoilMoisture ==
    << "ndvi_timeseries", "evi_timeseries", "gndvi_timeseries", "savi_timeseries",
       "ndwi_timeseries", "msavi_timeseries", "arvi_timeseries", "lai_timeseries",
       "chlorophyll_index", "water_stress_index", "biomass_proxy", "canopy_fraction" >>

expectedArrays ==
    << "ndvi_timeseries", "evi_timeseries", "gndvi_timeseries", "savi_timeseries",
       "ndwi_timeseries", "msavi_timeseries", "arvi_timeseries", "lai_timeseries",
       "chlorophyll_index", "water_stress_index", "biomass_proxy", "canopy_fraction",
       "soil_moisture" >>

RECURSIVE EnsureArrays(_, _, _)
EnsureArrays(out, names, i) ==
    IF i > Len(names) THEN out
    ELSE EnsureArrays(IF IsArray(Get(out, names[i])) THEN out
                      ELSE Put(out, names[i], Arr(<<>>)),
                      names, i + 1)

\* out.soil ? out.soil.profile || {} : {}
SoilProfileDefault(out) ==
    IF Truthy(Get(out, "soil")) /\ Truthy(Prop(Get(out, "soil"), "profile"))
    THEN Prop(Get(out, "soil"), "profile")
    ELSE Obj(<<>>)

EnsureSoilProfile(out) ==
    IF Truthy(Get(out, "soil_profile")) THEN out
    ELSE Put(out, "soil_profile", SoilProfileDefault(out))

EmptyAlerts == Obj(<< <<"frost", Arr(<<>>)>>, <<"heat", Arr(<<>>)>> >>)

EnsureAlerts(out) ==
    IF Truthy(Get(out, "alerts")) THEN out ELSE Put(out, "alerts", EmptyAlerts)

\* a step of the normalizer, skipped once a sample callback has thrown
Thrown(out) == out = <<Throw>>

normalizeAnalytics(raw) ==
    IF ~Truthy(raw) \/ ~TypeofObject(raw) THEN Null
    ELSE LET o0 == Spread(raw)
             o1 == Promote(o0, "temperature", "weather", "temperature")
             o2 == Promote(o1, "rainfall", "weather", "rainfall")
             o3 == Promote(o2, "soil_moisture", "soil", "moisture")
             o4 == Promote(o3, "soil_temperature", "soil", "temperature")
             o5 == TempFamily(o4, "temperature", <<"temp", "temperature">>, "temp", TRUE)
             o6 == IF Thrown(o5) THEN o5
                   ELSE TempFamily(o5, "soil_temperature", <<"soil_temp", "st">>, "soil_temp", FALSE)
             o7 == IF Thrown(o6) THEN o6
                   ELSE TempFamily(o6, "canopy_temperature", <<"canopy_temp">>, "canopy_temp", FALSE)
             o8 == IF Thrown(o7) THEN o7 ELSE RainFamily(o7)
         IN IF Thrown(o8) THEN Throw
            ELSE Obj(EnsureAlerts(EnsureSoilProfile(EnsureArrays(o8, expectedArrays, 1))))

\* a + b of the reduce: a sum of numbers; with an operand that is no number
\* `+` concatenates, the text of the result is left abstract
AddRain(a, b) ==
    IF Tag(a) = "num" /\ Tag(b) = "num" THEN Num(Val(a) + Val(b)) ELSE Str("concatenated")

\* analytics.rainfall.reduce((a, b) => a + (b.rain_mm || 0), 0)
RECURSIVE RainReduce(_, _, _)
RainReduce(series, i, acc) ==
    IF i > Len(series) THEN acc
    ELSE IF Tag(series[i]) \in {"null", "undef"} THEN Throw
    ELSE LET v == Prop(series[i], "rain_mm")
         IN RainReduce(series, i + 1, AddRain(acc, IF Truthy(v) THEN v ELSE Num(0)))

\* totalRain of the dashboard's render
dashboardTotalRain(analytics) ==
    IF Tag(analytics) \in {"null", "undef"} THEN Num(0)
    ELSE LET rainfall == Prop(analytics, "rainfall")
         IN IF Tag(rainfall) \in {"null", "undef"} \/ ~HasLength(rainfall) THEN Num(0)
            ELSE IF ~IsArray(rainfall) THEN Throw
            ELSE RainReduce(Val(rainfall), 1, Num(0))

(***************************************************************************)
(* Normalizer of the insights view                                         *)
(***************************************************************************)
insightsArrays ==
    << "soil_moisture", "ndvi_timeseries", "rainfall", "temperature",
       "lai_timeseries", "canopy_temperature", "soil_temperature" >>

\* if (!Array.isArray(out[k])) out[k] = out[k] || []
RECURSIVE DefaultArrays(_, _, _)
DefaultArrays(out, names, i) ==
    IF i > Len(names) THEN out
    ELSE DefaultArrays(IF IsArray(Get(out, names[i])) THEN out
                       ELSE IF Truthy(Get(out, names[i])) THEN out
                       ELSE Put(out, names[i], Arr(<<>>)),
                       names, i + 1)

\* out.soil_profile || out.soil?.profile || {}
InsightsSoilProfile(out) ==
    IF Truthy(Get(out, "soil_profile")) THEN out
    ELSE IF Tag(Get(out, "soil")) \notin {"null", "undef"}
            /\ Truthy(Prop(Get(out, "soil"), "profile"))
    THEN Put(out, "soil_profile", Prop(Get(out, "soil"), "profile"))
    ELSE Put(out, "soil_profile", Obj(<<>>))

\* a + b on numbers, NaN absorbing
Plus(a, b) == IF IsNaN(a) \/ IsNaN(b) THEN NaN ELSE Num(Val(a) + Val(b))

RECURSIVE SumSeq(_, _)
SumSeq(vals, i) == IF i > Len(vals) THEN Num(0) ELSE Plus(vals[i], SumSeq(vals, i + 1))

\* safeAvg(arr, key) with a key: the mean of Number(d[key]) over the samples
\* where it is a number (hundredths, rounded toward minus infinity)
safeAvg(arr, key) ==
    IF ~IsArray(arr) \/ Len(Val(arr)) = 0 THEN Null
    ELSE LET raw == [i \in 1..Len(Val(arr)) |->
                        IF Tag(Val(arr)[i]) \in {"null", "undef"} THEN Null
                        ELSE Number(Prop(Val(arr)[i], key))]
             IsNum(v) == Tag(v) = "num"
             vals == SelectSeq(raw, IsNum)
         IN IF Len(vals) = 0 THEN Null
            ELSE Num(Val(SumSeq(vals, 1)) \div Len(vals))

\* Number(d?.rain_mm || d?.rain || 0)
RainOf(d) ==
    IF Tag(d) \in {"null", "undef"} THEN Num(0)
    ELSE IF Truthy(Prop(d, "rain_mm")) THEN Number(Prop(d, "rain_mm"))
    ELSE IF Truthy(Prop(d, "rain")) THEN Number(Prop(d, "rain"))
    ELSE Num(0)

totalRain(rainfall) ==
    IF ~IsArray(rainfall) THEN Null
    ELSE SumSeq([i \in 1..Len(Val(rainfall)) |-> RainOf(Val(rainfall)[i])], 1)

Aggregates(out) ==
    LET a1 == Put(out, "avg_ndvi", safeAvg(Get(out, "ndvi_timeseries"), "ndvi"))
        a2 == Put(a1, "avg_soil_moisture", safeAvg(Get(a1, "soil_moisture"), "moisture"))
        a3 == Put(a2, "total_rain_mm", totalRain(Get(a2, "rainfall")))
        a4 == Put(a3, "avg_canopy_temp", safeAvg(Get(a3, "canopy_temperature"), "canopy_temp"))
    IN Put(a4, "avg_lai", safeAvg(Get(a4, "lai_timeseries"), "lai"))

normalizeAnalyticsInsights(raw) ==
    IF ~Truthy(raw) \/ ~TypeofObject(raw) THEN Null
    ELSE Obj(Aggregates(InsightsSoilProfile(DefaultArrays(Spread(raw), insightsArrays, 1))))

(***************************************************************************)
(* Coordinate resolver and soil points of the insights view                *)
(***************************************************************************)
\* a ?? b
Coalesce(a, b) == IF Tag(a) \in {"null", "undef"} THEN b ELSE a

\* Math.abs(a) <= bound, false for NaN
AbsWithin(a, bound) == Tag(a) = "num" /\ Val(a) >= -bound /\ Val(a) <= bound

\* a first pair whose first plausible-latitude test admits the poles only
\* from inside
FirstLooksLatLngInside(first) ==
    /\ Tag(Index(first, 0)) = "num"
    /\ Val(Index(first, 0)) > -LatMax /\ Val(Index(first, 0)) < LatMax
    /\ AbsWithin(Number(Index(first, 1)), LngMax)

\* Math.abs(first[0]) <= 90 && Math.abs(first[1]) <= 180
FirstLooksLatLng(first) ==
    /\ AbsWithin(Number(Index(first, 0)), LatMax)
    /\ AbsWithin(Number(Index(first, 1)), LngMax)

\* [Number(pt.lat ?? pt.latitude ?? null), Number(pt.lng ?? pt.longitude ?? null)]
LatLngOfObject(pt) ==
    IF Prop(pt, "lat") = Throw THEN Throw
    ELSE Arr(<< Number(Coalesce(Coalesce(Prop(pt, "lat"), Prop(pt, "latitude")), Null)),
                Number(Coalesce(Coalesce(Prop(pt, "lng"), Prop(pt, "longitude")), Null)) >>)

\* p => !isNaN(p[0]) && !isNaN(p[1])
BothNumbers(p) == ~IsNaN(Val(p)[1]) /\ ~IsNaN(Val(p)[2])

normalizeToLatLngArray(coords) ==
    IF ~Truthy(coords) THEN Arr(<<>>)
    ELSE IF Tag(coords) = "arr" /\ Len(Val(coords)) > 0 /\ Tag(Val(coords)[1]) = "null"
    THEN Throw
    ELSE IF /\ Tag(coords) = "arr" /\ Len(Val(coords)) > 0
            /\ (In("lat", Val(coords)[1]) \/ In("latitude", Val(coords)[1]))
    THEN LET mapped == [i \in 1..Len(Val(coords)) |-> LatLngOfObject(Val(coords)[i])]
         IN IF AnyThrow(mapped) THEN Throw ELSE Arr(SelectSeq(mapped, BothNumbers))
    ELSE IF Tag(coords) = "arr" /\ Len(Val(coords)) > 0 /\ Tag(Val(coords)[1]) = "arr"
    THEN IF FirstLooksLatLng(Val(coords)[1])
         THEN MapResult([i \in 1..Len(Val(coords)) |-> PairOf(Val(coords)[i], 0, 1)])
         ELSE MapResult([i \in 1..Len(Val(coords)) |-> PairOf(Val(coords)[i], 1, 0)])
    ELSE IF Tag(coords) = "obj" /\ Has(Val(coords), "latitude") /\ Has(Val(coords), "longitude")
    THEN Arr(<< Arr(<<Number(Get(Val(coords), "latitude")),
                      Number(Get(Val(coords), "longitude"))>>) >>)
    ELSE Arr(<<>>)

\* sum / n of the hundredths, NaN when the sum is
DivNum(sum, n) == IF IsNaN(sum) THEN NaN ELSE Num(Val(sum) \div n)

centroidOfLatLngs(latlngs) ==
    IF ~Truthy(latlngs) \/ ~HasLength(latlngs) THEN Null
    ELSE LET n == Len(Val(latlngs))
             sumLat == SumSeq([i \in 1..n |-> Val(Val(latlngs)[i])[1]], 1)
             sumLng == SumSeq([i \in 1..n |-> Val(Val(latlngs)[i])[2]], 1)
         IN Arr(<<DivNum(sumLat, n), DivNum(sumLng, n)>>)

\* v?.k
OptProp(v, k) == IF Tag(v) \in {"null", "undef"} THEN Undef ELSE Prop(v, k)

\* { lat, lng, moisture, date }
SoilPoint(lat, lng, moisture, date) ==
    Obj(<< <<"lat", lat>>, <<"lng", lng>>, <<"moisture", moisture>>, <<"date", date>> >>)

\* map callback of soil_moisture_points
PointOfMoisture(p) ==
    IF Tag(p) \in {"null", "undef"} THEN Throw
    ELSE SoilPoint(Number(Coalesce(Coalesce(Prop(p, "lat"), Prop(p, "latitude")), Index(p, 1))),
                   Number(Coalesce(Coalesce(Prop(p, "lng"), Prop(p, "longitude")), Index(p, 0))),
                   Number(Coalesce(Coalesce(Coalesce(Prop(p, "moisture"), Prop(p, "value")),
                                            Prop(p, "m")), Null)),
                   Coalesce(Coalesce(Prop(p, "date"), Prop(p, "timestamp")), Null))

\* map callback of soil_samples
PointOfSample(s) ==
    IF Tag(s) \in {"null", "undef"} THEN Throw
    ELSE SoilPoint(Number(Coalesce(Coalesce(Coalesce(Prop(s, "lat"), Prop(s, "latitude")),
                                            OptProp(Prop(s, "location"), "lat")), Null)),
                   Number(Coalesce(Coalesce(Coalesce(Prop(s, "lng"), Prop(s, "longitude")),
                                            OptProp(Prop(s, "location"), "lng")), Null)),
                   Number(Coalesce(Coalesce(Coalesce(Prop(s, "moisture"), Prop(s, "value")),
                                            Prop(s, "moisture_value")), Null)),
                   Coalesce(Coalesce(Prop(s, "date"), Prop(s, "sample_date")), Null))

\* pt => !isNaN(pt.lat) && !isNaN(pt.lng)
HasCoordinates(pt) == ~IsNaN(Prop(pt, "lat")) /\ ~IsNaN(Prop(pt, "lng"))

\* map callback of the moisture series
MoistureOf(d) ==
    IF Tag(d) \in {"num", "nan"} THEN d
    ELSE IF Tag(d) \in {"null", "undef"} THEN Null
    ELSE IF InThrows(d) THEN Throw
    ELSE ReadNamed(d, <<"moisture", "value">>, 1)

\* avg of the fallback point
AverageMoisture(analytics) ==
    LET arr == Coalesce(Coalesce(OptProp(analytics, "soil_moisture"),
                                 OptProp(analytics, "soil_moisture_timeseries")), Arr(<<>>))
        raw == IF IsArray(arr) THEN [i \in 1..Len(Val(arr)) |-> MoistureOf(Val(arr)[i])] ELSE <<>>
        IsNum(v) == Tag(v) = "num"
        vals == SelectSeq(raw, IsNum)
        avg == IF Len(vals) > 0 THEN DivNum(SumSeq(vals, 1), Len(vals)) ELSE Null
    IN IF AnyThrow(raw) THEN Throw
       ELSE IF avg = Null /\ Tag(OptProp(analytics, "soil_moisture")) \in {"num", "nan"}
       THEN OptProp(analytics, "soil_moisture")
       ELSE avg

soilPoints(analytics, farm) ==
    IF ~Truthy(analytics) /\ ~Truthy(farm) THEN Arr(<<>>)
    ELSE IF /\ Truthy(OptProp(analytics, "soil_moisture_points"))
            /\ IsArray(OptProp(analytics, "soil_moisture_points"))
    THEN LET ps == Val(OptProp(analytics, "soil_moisture_points"))
             mapped == [i \in 1..Len(ps) |-> PointOfMoisture(ps[i])]
         IN IF AnyThrow(mapped) THEN Throw ELSE Arr(SelectSeq(mapped, HasCoordinates))
    ELSE IF /\ Truthy(OptProp(analytics, "soil_samples"))
            /\ IsArray(OptProp(analytics, "soil_samples"))
    THEN LET ss == Val(OptProp(analytics, "soil_samples"))
             mapped == [i \in 1..Len(ss) |-> PointOfSample(ss[i])]
         IN IF AnyThrow(mapped) THEN Throw ELSE Arr(SelectSeq(mapped, HasCoordinates))
    ELSE LET polygonPositions == normalizeToLatLngArray(OptProp(farm, "coordinates"))
             centroid == centroidOfLatLngs(polygonPositions)
         IN IF polygonPositions = Throw THEN Throw
            ELSE IF ~Truthy(centroid) THEN Arr(<<>>)
            ELSE IF AverageMoisture(analytics) = Throw THEN Throw
            ELSE Arr(<< SoilPoint(Val(centroid)[1], Val(centroid)[2],
                                  AverageMoisture(analytics), Null) >>)

(***************************************************************************)
(* The world of the two views: farms, dates, provider answers              *)
(***************************************************************************)
MaxEvents == 2
MaxInFlight == 2

F1 == <<"f">>
F2 == <<"f", "_", "x">>
FarmIds == {F1, F2}

\* the dashboard's initial range (last 90 days) and one range a user picks
DefaultRange == <<"d1", "d2">>
DateRanges == {DefaultRange, <<"d2", "d2">>}

Point(lat, lng) == Obj(<< <<"lat", Num(lat)>>, <<"lng", Num(lng)>> >>)
Pair(a, b) == Arr(<<Num(a), Num(b)>>)

\* the stored farm documents: F1 as the drawing form saves it ({lat, lng}
\* objects), F2 as lat-first numeric pairs
FarmCoordinates(fid) ==
    IF fid = F1
    THEN Arr(<<Point(2301, 7250), Point(2302, 7251), Point(2303, 7250)>>)
    ELSE Arr(<<Pair(2301, 7250), Pair(2302, 7251), Pair(2303, 7250)>>)

FarmDoc(fid) == [id |-> fid, coordinates |-> FarmCoordinates(fid)]
NoFarm == [id |-> <<>>, coordinates |-> Undef]

\* a provider payload; dated: the provider states the range it used
Payload(range, dated) ==
    LET series == << <<"temperature",
                       Arr(<< Obj(<< <<"temp", Num(30500)>>, <<"date", Str(range[1])>> >>) >>)>> >>
    IN Obj(IF dated
           THEN series \o << <<"start_date", Str(range[1])>>, <<"end_date", Str(range[2])>> >>
           ELSE series)

ErrorPayload == Obj(<< <<"error", Str("boom")>> >>)

\* what a provider call can answer for a request over `range`; Throw is a
\* transport failure (fetch or res.json() rejects)
\* a request that names no dates may also be answered with the range used
Answers(range, open) ==
    {Throw, ErrorPayload, Payload(range, FALSE)} \cup
    (IF open THEN {Payload(range, TRUE)} ELSE {})


(***************************************************************************)
(* State                                                                   *)
(***************************************************************************)
VARIABLES
    idb,            \* the persisted value under "analyticsCache", Undef when none
    clock,          \* Math.floor(Date.now() / 1000)
    nEvents,        \* user events so far: navigations and clicks
    dMounted,       \* FarmDashboard: the instance is on screen
    dId,            \* FarmDashboard: useParams().id
    dFarm,          \* FarmDashboard: farm
    dAnalytics,     \* FarmDashboard: analytics, with the identity of the object
    dLoading,       \* FarmDashboard: loading
    dIsMounted,     \* FarmDashboard: isMounted.current
    dCache,         \* FarmDashboard: analyticsCacheRef.current
    dLoad,          \* FarmDashboard: the answer loadCache is waiting for
    dDates,         \* FarmDashboard: <<startDate, endDate>>
    dFarmFetch,     \* FarmDashboard: getDoc calls in flight
    dCalls,         \* FarmDashboard: provider calls in flight
    dAlert,         \* FarmDashboard: the alert() shown by the last fetchAnalytics
    iMounted,       \* FarmInsights: the instance is on screen
    iId,            \* FarmInsights: useParams().id
    iFarm,          \* FarmInsights: farm
    iAnalytics,     \* FarmInsights: analytics
    iLoading,       \* FarmInsights: loading
    iError,         \* FarmInsights: error
    iFarmFetch,     \* FarmInsights: getDoc calls in flight
    iLoaders,       \* FarmInsights: loadForFarm runs in flight
    idbFails,       \* the IndexedDB requests ("get", "set") this session rejects
    arg,            \* the input handed to a pure function under test
    res             \* its result, and which function gave it

sharedVars == <<idb, clock, nEvents>>
dashVars == <<dMounted, dId, dFarm, dAnalytics, dLoading, dIsMounted, dCache, dLoad,
              dDates, dFarmFetch, dCalls, dAlert>>
insVars == <<iMounted, iId, iFarm, iAnalytics, iLoading, iError, iFarmFetch,
             iLoaders>>
envVars == <<idbFails, arg, res>>
vars == <<sharedVars, dashVars, insVars, envVars>>

NoLoad == [pending |-> FALSE, val |-> Undef]
NoAnalytics == [src |-> "null", key |-> <<>>, val |-> Null]

(***************************************************************************)
(* IndexedDB.  Requests on the one object store are carried out in the     *)
(* order they are issued, so a request takes effect on `idb` when it is    *)
(* issued and only its continuation (the code after the await) is a later  *)
(* step of its own.                                                        *)
(***************************************************************************)
\* a navigation or a click of the user
UserEvent == nEvents < MaxEvents /\ nEvents' = nEvents + 1

(***************************************************************************)
(* FarmDashboard                                                           *)
(***************************************************************************)
\* a key that leaves the end date out
cacheKeyWithoutEnd(fid, start, end) == fid \o <<"_", start>>

\* `${id}_${start}_${end}`
cacheKey(fid, start, end) == fid \o <<"_", start, "_", end>>

\* a lookup that does not look at forceRefresh
cacheHitIgnoringForce(cache, key, forceRefresh) == Truthy(Get(cache, key))

\* !forceRefresh && analyticsCacheRef.current[cacheKey]
cacheHit(cache, key, forceRefresh) == ~forceRefresh /\ Truthy(Get(cache, key))

\* get("analyticsCache"): the persisted value, or a rejection
idbGet == IF "get" \in idbFails THEN Throw ELSE idb

\* a set whose value is lost
idbSetLost(blob, value) == blob

\* set("analyticsCache", value): the persisted value afterwards
idbSet(blob, value) == IF "set" \in idbFails THEN blob ELSE value

\* an effect that never writes
saveCacheNever(blob, changed, cache) == blob

\* a flush that keeps the persisted entries the in-memory cache lacks
RECURSIVE PutAll(_, _, _)
PutAll(into, from, i) ==
    IF i > Len(from) THEN into ELSE PutAll(Put(into, from[i][1], from[i][2]), from, i + 1)

saveCacheMerged(blob, changed, cache) ==
    IF changed
    THEN idbSet(blob, Obj(PutAll(IF Tag(blob) = "obj" THEN Val(blob) ELSE <<>>, cache, 1)))
    ELSE blob

\* the saveCache effect, run after a render in which `analytics` changed:
\* set("analyticsCache", analyticsCacheRef.current)
saveCache(blob, changed, cache) == IF changed THEN idbSet(blob, Obj(cache)) ELSE blob

\* a check that lets every answer through
hasErrorNever(data) == FALSE

\* if (data.error)
hasError(data) == Truthy(Prop(data, "error"))

\* a number that tells this call from the others in flight
FreeSlot(calls) == CHOOSE n \in 1..(Cardinality(calls) + 1) : \A c \in calls : c.n # n

\* fetchAnalytics up to its first await, for the render whose id is fid
fetchAnalytics(fid, coords, start, end, forceRefresh) ==
    LET cleanCoords == parseCoords(coords)
        key == cacheKey(fid, start, end)
    IN IF cleanCoords = Throw
       THEN UNCHANGED <<dAnalytics, dLoading, dCalls, idb, dAlert>>
       ELSE IF cacheHit(dCache, key, forceRefresh)
       THEN /\ dAnalytics' = [src |-> "cache", key |-> key, val |-> Get(dCache, key)]
            /\ idb' = saveCache(idb, dAnalytics' # dAnalytics, dCache)
            /\ dAlert' = "none"
            /\ UNCHANGED <<dLoading, dCalls>>
       ELSE /\ dLoading' = TRUE
            /\ dAnalytics' = NoAnalytics
            /\ idb' = saveCache(idb, dAnalytics' # dAnalytics, dCache)
            /\ dCalls' = dCalls \cup
                   {[n |-> FreeSlot(dCalls), id |-> fid, key |-> key,
                     coordinates |-> cleanCoords, range |-> <<start, end>>,
                     force_refresh |-> forceRefresh]}
            /\ dAlert' = "none"

\* a new FarmDashboard instance is rendered for route id fid: the loadCache
\* effect issues its get, the saveCache effect its first set, the fetchFarm
\* effect its getDoc
DashMount(fid) ==
    /\ ~dMounted
    /\ UserEvent
    /\ dMounted' = TRUE
    /\ dId' = fid
    /\ dFarm' = NoFarm
    /\ dAnalytics' = NoAnalytics
    /\ dLoading' = FALSE
    /\ dIsMounted' = TRUE
    /\ dCache' = <<>>
    /\ dDates' = DefaultRange
    /\ dAlert' = "none"
    /\ dLoad' = [pending |-> TRUE, val |-> idbGet]
    /\ idb' = saveCache(idb, TRUE, <<>>)
    /\ dFarmFetch' = {[id |-> fid, range |-> DefaultRange]}
    /\ dCalls' = {}
    /\ UNCHANGED <<clock, insVars, envVars>>

\* the instance is removed: the cleanup of the fetchFarm effect runs
DashUnmount ==
    /\ dMounted
    /\ UserEvent
    /\ dMounted' = FALSE
    /\ dIsMounted' = FALSE
    /\ dFarm' = NoFarm
    /\ dAnalytics' = NoAnalytics
    /\ dLoading' = FALSE
    /\ dCache' = <<>>
    /\ dLoad' = NoLoad
    /\ dDates' = DefaultRange
    /\ dFarmFetch' = {}
    /\ dAlert' = "none"
    /\ UNCHANGED <<idb, clock, dId, dCalls, insVars, envVars>>

\* the route id changes under the same instance: cleanup, then the
\* fetchFarm effect again
DashSwitch(fid) ==
    /\ dMounted
    /\ fid # dId
    /\ UserEvent
    /\ dId' = fid
    /\ dIsMounted' = TRUE
    /\ dFarmFetch' = dFarmFetch \cup {[id |-> fid, range |-> dDates]}
    /\ UNCHANGED <<idb, clock, dMounted, dFarm, dAnalytics, dLoading,
                   dCache, dLoad, dDates, dCalls, dAlert, insVars, envVars>>

\* loadCache after its await: the saved cache, if any, replaces the ref
loadCache ==
    /\ dLoad.pending
    /\ dLoad' = NoLoad
    /\ IF Truthy(dLoad.val)
       THEN /\ dCache' = Val(dLoad.val)
            /\ dAnalytics' = IF dAnalytics.src = "cache"
                              THEN [dAnalytics EXCEPT !.src = "detached"]
                              ELSE dAnalytics
       ELSE UNCHANGED <<dCache, dAnalytics>>
    /\ UNCHANGED <<sharedVars, dMounted, dId, dFarm, dLoading, dIsMounted,
                   dDates, dFarmFetch, dCalls, dAlert, insVars, envVars>>

\* fetchFarm: a getDoc is answered with the farm document
fetchFarm(f) ==
    /\ f \in dFarmFetch
    /\ Cardinality(dCalls) < MaxInFlight
    /\ dFarmFetch' = dFarmFetch \ {f}
    /\ IF dIsMounted
       THEN /\ dFarm' = FarmDoc(f.id)
            /\ fetchAnalytics(f.id, FarmCoordinates(f.id), f.range[1], f.range[2], FALSE)
       ELSE UNCHANGED <<dFarm, dAnalytics, dLoading, dCalls, idb, dAlert>>
    /\ UNCHANGED <<clock, nEvents, dMounted, dId, dIsMounted, dCache, dLoad,
                   dDates, insVars, envVars>>

\* the user picks a range and clicks Update
handleDateSubmit(range) ==
    /\ dMounted
    /\ dFarm # NoFarm
    /\ ~dLoading
    /\ UserEvent
    /\ Cardinality(dCalls) < MaxInFlight
    /\ dDates' = range
    /\ IF ~Truthy(dFarm.coordinates)
          \/ (IsArray(dFarm.coordinates) /\ Len(Val(dFarm.coordinates)) = 0)
       THEN /\ dAlert' = "nocoords"
            /\ UNCHANGED <<dAnalytics, dLoading, dCalls, idb>>
       ELSE fetchAnalytics(dId, dFarm.coordinates, range[1], range[2], FALSE)
    /\ UNCHANGED <<clock, dMounted, dId, dFarm, dIsMounted, dCache, dLoad,
                   dFarmFetch, insVars, envVars>>

\* the user clicks Refresh Analytics
RefreshAnalytics ==
    /\ dMounted
    /\ dFarm # NoFarm
    /\ ~dLoading
    /\ UserEvent
    /\ Cardinality(dCalls) < MaxInFlight
    /\ Truthy(dFarm.coordinates)
    /\ fetchAnalytics(dId, dFarm.coordinates, dDates[1], dDates[2], TRUE)
    /\ UNCHANGED <<clock, dMounted, dId, dFarm, dIsMounted, dCache, dLoad, dDates,
                   dFarmFetch, insVars, envVars>>

\* isMounted.current left false by the cleanup and not set again
isMountedNotRestored(c) == FALSE

\* isMounted.current as the continuation of call c reads it
isMountedFor(c) == dIsMounted

\* fetchAnalytics after the await: the provider call c is answered with data
fetchAnalyticsDone(c, data) ==
    /\ c \in dCalls
    /\ dCalls' = dCalls \ {c}
    /\ LET normalized == IF data = Throw THEN Throw ELSE normalizeAnalytics(data)
       IN IF data = Throw \/ normalized = Throw
          THEN /\ dAlert' = "failed"
               /\ UNCHANGED <<dAnalytics, dCache, idb>>
          ELSE IF hasError(data)
          THEN /\ dAlert' = "server"
               /\ UNCHANGED <<dAnalytics, dCache, idb>>
          ELSE IF isMountedFor(c)
          THEN /\ dCache' = Put(dCache, c.key, normalized)
               /\ dAnalytics' = [src |-> "clone", key |-> c.key, val |-> normalized]
               /\ idb' = saveCache(idb, TRUE, dCache')
               /\ UNCHANGED dAlert
          ELSE UNCHANGED <<dAnalytics, dCache, idb, dAlert>>
    /\ dLoading' = IF isMountedFor(c) THEN FALSE ELSE dLoading
    /\ UNCHANGED <<clock, nEvents, dMounted, dId, dFarm, dIsMounted, dLoad,
                   dDates, dFarmFetch, insVars, envVars>>

DashNext ==
    \/ \E fid \in FarmIds : DashMount(fid)
    \/ DashUnmount
    \/ \E fid \in FarmIds : DashSwitch(fid)
    \/ loadCache
    \/ \E f \in dFarmFetch : fetchFarm(f)
    \/ \E range \in DateRanges : handleDateSubmit(range)
    \/ RefreshAnalytics
    \/ \E c \in dCalls : \E data \in Answers(c.range, FALSE) : fetchAnalyticsDone(c, data)

(***************************************************************************)
(* FarmInsights                                                            *)
(***************************************************************************)
NegInfinity == <<"ninf", 0>>

\* k.startsWith(prefix)
startsWith(k, prefix) == Len(k) >= Len(prefix) /\ SubSeq(k, 1, Len(prefix)) = prefix

\* Date.parse(v): a value <<"date", ms>> is a string that parses to ms
DateParse(v) == IF Tag(v) = "date" THEN Num(Val(v)) ELSE NaN

\* the stamp loadForFarm gives a saved entry
stampOf(val) ==
    IF Truthy(Prop(val, "response")) /\ Truthy(Prop(Prop(val, "response"), "timestamp"))
    THEN DateParse(Prop(Prop(val, "response"), "timestamp"))
    ELSE IF Truthy(Prop(val, "_cached_at_ts"))
    THEN LET ts == Number(Prop(val, "_cached_at_ts"))
         IN IF IsNaN(ts) THEN NaN ELSE Num(Val(ts) * 1000)
    ELSE NegInfinity

\* stamp && stamp > bestStamp
Newer(stamp, bestStamp) ==
    /\ Tag(stamp) = "num"
    /\ Val(stamp) # 0
    /\ (bestStamp = NegInfinity \/ Val(stamp) > Val(bestStamp))

\* candidateKeys.forEach(...) from index i with the best found so far
RECURSIVE bestKeyFrom(_, _, _, _, _)
bestKeyFrom(cache, keys, i, bestKey, bestStamp) ==
    IF i > Len(keys) THEN bestKey
    ELSE LET val == Get(cache, keys[i])
         IN IF Truthy(val) /\ Newer(stampOf(val), bestStamp)
            THEN bestKeyFrom(cache, keys, i + 1, keys[i], stampOf(val))
            ELSE bestKeyFrom(cache, keys, i + 1, bestKey, bestStamp)

\* Object.keys(savedCache).filter(k => k.startsWith(`${id}_`))
candidateKeys(cache, fid) ==
    LET Mine(k) == startsWith(k, fid \o <<"_">>)
    IN SelectSeq(Keys(cache), Mine)

bestKey(cache, fid) ==
    bestKeyFrom(cache, candidateKeys(cache, fid), 1, candidateKeys(cache, fid)[1], NegInfinity)

\* a loader that serves the first of the farm's keys
servedEntryFirstKey(saved, fid) ==
    IF Truthy(saved) /\ TypeofObject(saved) /\ Tag(saved) = "obj"
       /\ Len(candidateKeys(Val(saved), fid)) > 0
    THEN Get(Val(saved), candidateKeys(Val(saved), fid)[1])
    ELSE Undef

\* the saved entry loadForFarm serves for farm fid, Undef when it goes on
\* to the backend
servedEntry(saved, fid) ==
    IF Truthy(saved) /\ TypeofObject(saved) /\ Tag(saved) = "obj"
       /\ Len(candidateKeys(Val(saved), fid)) > 0
       /\ Truthy(Get(Val(saved), bestKey(Val(saved), fid)))
    THEN Get(Val(saved), bestKey(Val(saved), fid))
    ELSE Undef

\* cachedEntry.response || cachedEntry
responseOf(entry) ==
    IF Truthy(Prop(entry, "response")) THEN Prop(entry, "response") ELSE entry

\* data.start_date || "", then start || "auto"
dateOrAuto(v) ==
    IF Truthy(v) /\ Tag(v) = "str" THEN Val(v) ELSE "auto"

\* the key loadForFarm saves a response under
insightsKey(fid, data) ==
    fid \o <<"_", dateOrAuto(Prop(data, "start_date")), "_",
             dateOrAuto(Prop(data, "end_date"))>>

\* { _cached_at_ts: ..., response: data }
wrapEntry(ts, data) == Obj(<< <<"_cached_at_ts", Num(ts)>>, <<"response", data>> >>)

\* the loadForFarm effect starts a run for (farm, id): setLoading(true) and
\* the first get
Loader(fid, farm) ==
    [id |-> fid, coordinates |-> farm.coordinates, cancelled |-> FALSE, orphan |-> FALSE,
     pc |-> "read", snap |-> idbGet, data |-> Undef]

Cancel(loaders) == {[l EXCEPT !.cancelled = TRUE] : l \in loaders}

\* the loader's component instance is still the one on screen
Alive(l) == ~l.orphan

\* a new FarmInsights instance is rendered for route id fid
InsMount(fid) ==
    /\ ~iMounted
    /\ UserEvent
    /\ iMounted' = TRUE
    /\ iId' = fid
    /\ iFarm' = NoFarm
    /\ iAnalytics' = Null
    /\ iLoading' = TRUE
    /\ iError' = "none"
    /\ iFarmFetch' = {fid}
    /\ UNCHANGED <<idb, clock, iLoaders, dashVars, envVars>>

\* the instance is removed: both effects' cleanups set their `cancelled`
InsUnmount ==
    /\ iMounted
    /\ UserEvent
    /\ iMounted' = FALSE
    /\ iFarmFetch' = {}
    /\ iLoaders' = {[l EXCEPT !.cancelled = TRUE, !.orphan = TRUE] : l \in iLoaders}
    /\ iFarm' = NoFarm
    /\ iAnalytics' = Null
    /\ iLoading' = FALSE
    /\ iError' = "none"
    /\ UNCHANGED <<idb, clock, iId, dashVars, envVars>>

\* the route id changes under the same instance: both effects run again,
\* loadForFarm with the farm still in state
InsSwitch(fid) ==
    /\ iMounted
    /\ fid # iId
    /\ UserEvent
    /\ Cardinality(iLoaders) < MaxInFlight
    /\ iId' = fid
    /\ iFarmFetch' = {fid}
    /\ iLoading' = TRUE
    /\ iError' = "none"
    /\ iLoaders' = IF iFarm = NoFarm THEN Cancel(iLoaders)
                   ELSE Cancel(iLoaders) \cup {Loader(fid, iFarm)}
    /\ UNCHANGED <<idb, clock, iMounted, iFarm, iAnalytics, dashVars, envVars>>

\* fetchFarm of the insights view: the farm document arrives, and the
\* loadForFarm effect runs for it
InsFarmLoaded(fid) ==
    /\ fid \in iFarmFetch
    /\ Cardinality(iLoaders) < MaxInFlight
    /\ iFarmFetch' = iFarmFetch \ {fid}
    /\ iFarm' = FarmDoc(fid)
    /\ iLoading' = TRUE
    /\ iLoaders' = Cancel(iLoaders) \cup {Loader(iId, FarmDoc(fid))}
    /\ UNCHANGED <<sharedVars, iMounted, iId, iAnalytics, iError, dashVars, envVars>>

\* loadForFarm after its first get: serve a saved entry, or call the backend
loadForFarmRead(l) ==
    /\ l \in iLoaders
    /\ l.pc = "read"
    /\ LET entry == servedEntry(l.snap, l.id)
       IN IF l.snap = Throw
          THEN /\ iError' = IF l.cancelled THEN iError ELSE "load"
               /\ iLoading' = IF l.cancelled THEN iLoading ELSE FALSE
               /\ iLoaders' = iLoaders \ {l}
               /\ UNCHANGED iAnalytics
          ELSE IF Truthy(entry)
          THEN /\ iAnalytics' = IF l.cancelled THEN iAnalytics
                                ELSE normalizeAnalyticsInsights(responseOf(entry))
               /\ iLoading' = IF Alive(l) THEN FALSE ELSE iLoading
               /\ iLoaders' = iLoaders \ {l}
               /\ UNCHANGED iError
          ELSE IF Truthy(l.coordinates) /\ HasLength(l.coordinates)
          THEN /\ iLoaders' = (iLoaders \ {l}) \cup
                                {[l EXCEPT !.pc = "call", !.snap = Undef]}
               /\ UNCHANGED <<iAnalytics, iLoading, iError>>
          ELSE /\ iLoading' = IF l.cancelled THEN iLoading ELSE FALSE
               /\ iLoaders' = iLoaders \ {l}
               /\ UNCHANGED <<iAnalytics, iError>>
    /\ UNCHANGED <<idb, clock, nEvents, iMounted, iId, iFarm, iFarmFetch,
                   dashVars, envVars>>

\* the request body loadForFarm posts
insightsBody(l) ==
    [coordinates |-> l.coordinates, start_date |-> Undef, end_date |-> Undef,
     farm_id |-> l.id, force_refresh |-> FALSE]

\* loadForFarm after the fetch: the provider answers with data
loadForFarmAnswer(l, data) ==
    /\ l \in iLoaders
    /\ l.pc = "call"
    /\ IF data = Throw
       THEN /\ iError' = IF l.cancelled THEN iError ELSE "failed"
            /\ iLoading' = IF l.cancelled THEN iLoading ELSE FALSE
            /\ iLoaders' = iLoaders \ {l}
            /\ UNCHANGED iAnalytics
       ELSE IF hasError(data)
       THEN /\ iError' = IF l.cancelled THEN iError ELSE "server"
            /\ iLoading' = IF l.cancelled THEN iLoading ELSE FALSE
            /\ iLoaders' = iLoaders \ {l}
            /\ UNCHANGED iAnalytics
       ELSE /\ iAnalytics' = IF l.cancelled THEN iAnalytics
                             ELSE normalizeAnalyticsInsights(data)
            /\ iLoaders' = (iLoaders \ {l}) \cup
                             {[l EXCEPT !.pc = "merge", !.snap = idbGet, !.data = data]}
            /\ UNCHANGED <<iError, iLoading>>
    /\ UNCHANGED <<sharedVars, iMounted, iId, iFarm, iFarmFetch, dashVars, envVars>>

\* loadForFarm after its second get: the response is added to the cache as
\* read, the whole is written back, and the finally block runs; a rejected
\* get or set is caught and logged
loadForFarmSave(l, ts) ==
    /\ l \in iLoaders
    /\ l.pc = "merge"
    /\ clock' = ts
    /\ LET globalCache == IF Truthy(l.snap) THEN Val(l.snap) ELSE <<>>
       IN idb' = IF l.snap = Throw THEN idb
                 ELSE idbSet(idb, Obj(Put(globalCache, insightsKey(l.id, l.data),
                                          wrapEntry(ts, l.data))))
    /\ iLoading' = IF l.cancelled THEN iLoading ELSE FALSE
    /\ iLoaders' = iLoaders \ {l}
    /\ UNCHANGED <<nEvents, iMounted, iId, iFarm, iAnalytics, iError, iFarmFetch,
                   dashVars, envVars>>

InsNext ==
    \/ \E fid \in FarmIds : InsMount(fid)
    \/ InsUnmount
    \/ \E fid \in FarmIds : InsSwitch(fid)
    \/ \E fid \in iFarmFetch : InsFarmLoaded(fid)
    \/ \E l \in iLoaders : loadForFarmRead(l)
    \/ \E l \in iLoaders : \E data \in Answers(DefaultRange, TRUE) : loadForFarmAnswer(l, data)
    \/ \E l \in iLoaders : loadForFarmSave(l, clock + 1)

(***************************************************************************)
(* Initial states: the views are not on screen; the persisted value is     *)
(* what earlier sessions left behind                                       *)
(***************************************************************************)
\* left by a dashboard session that fetched F1 over the default range
SavedByDashboard ==
    Obj(<< <<cacheKey(F1, DefaultRange[1], DefaultRange[2]),
             normalizeAnalytics(Payload(DefaultRange, FALSE))>> >>)

\* left by two insights runs for F1, the second answered with its dates
SavedByInsights ==
    Obj(<< <<insightsKey(F1, Payload(DefaultRange, FALSE)),
             wrapEntry(1, Payload(DefaultRange, FALSE))>>,
           <<insightsKey(F1, Payload(DefaultRange, TRUE)),
             wrapEntry(2, Payload(DefaultRange, TRUE))>> >>)

SavedBefore == {Undef, SavedByDashboard, SavedByInsights}


\* no view is on screen
Unmounted ==
    /\ clock = 2
    /\ nEvents = 0
    /\ dMounted = FALSE
    /\ dId = F1
    /\ dFarm = NoFarm
    /\ dAnalytics = NoAnalytics
    /\ dLoading = FALSE
    /\ dIsMounted = FALSE
    /\ dCache = <<>>
    /\ dLoad = NoLoad
    /\ dDates = DefaultRange
    /\ dFarmFetch = {}
    /\ dCalls = {}
    /\ dAlert = "none"
    /\ iMounted = FALSE
    /\ iId = F1
    /\ iFarm = NoFarm
    /\ iAnalytics = Null
    /\ iLoading = FALSE
    /\ iError = "none"
    /\ iFarmFetch = {}
    /\ iLoaders = {}

\* no pure function is under test
NoCall == arg = Null /\ res = [by |-> "none", out |-> Undef]

Init ==
    /\ idb \in SavedBefore
    /\ idbFails = {}
    /\ Unmounted
    /\ NoCall

Next == DashNext \/ InsNext

Spec == Init /\ [][Next]_vars

\* the two views are open on farm F1 and each has its provider call in
\* flight: the dashboard mounted (its first flush left {} persisted, its
\* loadCache found nothing), its farm arrived and fetchAnalytics missed; the
\* insights view mounted, its farm arrived and its first get found no key of
\* the farm
BothInFlight ==
    /\ idb = Obj(<<>>)
    /\ clock = 2
    /\ dMounted = TRUE
    /\ dId = F1
    /\ dFarm = FarmDoc(F1)
    /\ dAnalytics = NoAnalytics
    /\ dLoading = TRUE
    /\ dIsMounted = TRUE
    /\ dCache = <<>>
    /\ dLoad = NoLoad
    /\ dDates = DefaultRange
    /\ dFarmFetch = {}
    /\ dCalls = {[n |-> 1, id |-> F1, key |-> cacheKey(F1, DefaultRange[1], DefaultRange[2]),
                  coordinates |-> parseCoords(FarmCoordinates(F1)), range |-> DefaultRange,
                  force_refresh |-> FALSE]}
    /\ dAlert = "none"
    /\ iMounted = TRUE
    /\ iId = F1
    /\ iFarm = FarmDoc(F1)
    /\ iAnalytics = Null
    /\ iLoading = TRUE
    /\ iError = "none"
    /\ iFarmFetch = {}
    /\ iLoaders = {[id |-> F1, coordinates |-> FarmCoordinates(F1), cancelled |-> FALSE,
                    orphan |-> FALSE, pc |-> "call", snap |-> Undef, data |-> Undef]}

\* the session goes on from there with its budget of user events
RaceInit ==
    /\ BothInFlight
    /\ nEvents = 0
    /\ idbFails = {}
    /\ NoCall

RaceSpec == RaceInit /\ [][Next]_vars

\* the steps of the dashboard that wait for no user: a pending get, getDoc
\* or provider call settles and its continuation runs
DashSettles ==
    \/ loadCache
    \/ \E f \in dFarmFetch : fetchFarm(f)
    \/ \E c \in dCalls : \E data \in Answers(c.range, FALSE) : fetchAnalyticsDone(c, data)

\* the same for the insights view after its first get
InsSettles ==
    \/ \E fid \in iFarmFetch : InsFarmLoaded(fid)
    \/ \E l \in iLoaders : \E data \in Answers(DefaultRange, TRUE) : loadForFarmAnswer(l, data)
    \/ \E l \in iLoaders : loadForFarmSave(l, clock + 1)

\* a loadForFarm run waits for its first get: loadForFarmRead is enabled
\* exactly then, every branch of it takes the loader on or ends it
ReadPending == \E l \in iLoaders : l.pc = "read"

\* WF_vars(\E l \in iLoaders : loadForFarmRead(l)), with ReadPending written
\* for its ENABLED
ReadSettles ==
    \/ []<>(~ReadPending)
    \/ []<><<\E l \in iLoaders : loadForFarmRead(l)>>_vars

\* every pending request settles and the event loop runs its continuation
LiveSpec ==
    Init /\ [][Next]_vars /\ WF_vars(DashSettles) /\ WF_vars(InsSettles) /\ ReadSettles

\* a session in which IndexedDB rejects its reads, its writes (quota), or
\* both (storage unavailable)
InitFails ==
    /\ idb \in SavedBefore
    /\ idbFails \in {{"get"}, {"set"}, {"get", "set"}}
    /\ Unmounted
    /\ NoCall

FailSpec == InitFails /\ [][Next]_vars

(***************************************************************************)
(* Properties of the cache engine                                          *)
(***************************************************************************)
KeySet(o) == {o[i][1] : i \in 1..Len(o)}

\* the keys of the persisted value
PersistedKeys == IF Truthy(idb) THEN KeySet(Val(idb)) ELSE {}

\* C1: a dashboard resolve with forceRefresh = true (the Refresh Analytics
\* click) puts a provider call for the displayed farm and range in flight,
\* with force_refresh set, whatever the in-memory cache holds for the key.
C1ForceRefreshCalls ==
    [][RefreshAnalytics =>
         \E c \in dCalls' \ dCalls :
            c.force_refresh /\ c.id = dId /\ c.range = dDates]_vars

\* a forced call is in flight while the cache holds an entry for its key
C1ForcedOverHit ==
    \E c \in dCalls : c.force_refresh /\ Truthy(Get(dCache, c.key))

\* a dashboard resolve without force for (fid, range) that finds the key in
\* memory displays that entry and starts no provider call
DashboardServes(fid, range) ==
    LET key == fid \o <<"_", range[1], "_", range[2]>>
    IN Truthy(Get(dCache, key)) =>
          dCalls' = dCalls /\ dAnalytics'.val = Get(dCache, key)

DashboardHitsServed ==
    /\ \A f \in dFarmFetch :
          (fetchFarm(f) /\ dIsMounted) => DashboardServes(f.id, f.range)
    /\ \A range \in DateRanges :
          handleDateSubmit(range) => DashboardServes(dId, range)

\* the keys of a saved cache that start with the farm id and "_"
KeysOfFarm(saved, fid) ==
    IF Tag(saved) = "obj"
    THEN {k \in KeySet(Val(saved)) : startsWith(k, fid \o <<"_">>)}
    ELSE {}

\* the second at which an entry was saved by the insights view, 0 for an
\* entry that carries no stamp
SavedAt(entry) ==
    IF Truthy(Prop(entry, "_cached_at_ts")) THEN Val(Prop(entry, "_cached_at_ts")) ELSE 0

\* loader l is past its call to the backend, or on it
CallsBackend(l) == \E m \in iLoaders' : m.id = l.id /\ m.pc = "call" /\ m \notin iLoaders

\* C2 (as the code has it): without force, the dashboard serves the entry
\* under farmId_start_end from memory and starts no provider call; the
\* insights view, when the saved cache holds any key that starts with
\* farmId_, starts no provider call and shows an entry of greatest save
\* stamp among those keys.  No step consults the age of an entry.
C2CacheHitNoCall ==
    [][/\ DashboardHitsServed
       /\ \A l \in iLoaders :
             (loadForFarmRead(l) /\ KeysOfFarm(l.snap, l.id) # {}) =>
                /\ ~CallsBackend(l)
                /\ ~l.cancelled =>
                     \E k \in KeysOfFarm(l.snap, l.id) :
                        /\ \A k2 \in KeysOfFarm(l.snap, l.id) :
                              SavedAt(Get(Val(l.snap), k2)) <= SavedAt(Get(Val(l.snap), k))
                        /\ iAnalytics' =
                              normalizeAnalyticsInsights(responseOf(Get(Val(l.snap), k)))]_vars

\* both views show analytics served from the cache: no provider call was
\* made (a call of the insights view would have advanced the clock)
C2BothServedFromCache ==
    /\ dAnalytics.src = "cache" /\ dCalls = {}
    /\ iAnalytics # Null /\ iLoaders = {} /\ clock = 2

\* C2 (as stated): when the cache holds an entry for the key built from
\* (farmId, start, end) - farmId_auto_auto for the insights view, which
\* names no dates - the resolve returns that entry and starts no call.
C2ServesEntryOfKey ==
    [][/\ DashboardHitsServed
       /\ \A l \in iLoaders :
             LET key == l.id \o <<"_", "auto", "_", "auto">>
             IN (loadForFarmRead(l) /\ ~l.cancelled /\ key \in KeysOfFarm(l.snap, l.id)) =>
                   /\ ~CallsBackend(l)
                   /\ iAnalytics' =
                         normalizeAnalyticsInsights(responseOf(Get(Val(l.snap), key)))]_vars

\* the answers that report a failure
Failures == {Throw, ErrorPayload}

\* C3: the step that handles a failed provider call (a top-level error
\* field, or a transport failure) leaves the in-memory cache and the
\* persisted value as they were and reports the failure: the dashboard
\* with an alert, the insights view in its error state unless the run was
\* cancelled; the insights run ends without its write.
C3ErrorsNotCached ==
    [][/\ \A c \in dCalls : \A data \in Failures :
             fetchAnalyticsDone(c, data) =>
                dCache' = dCache /\ idb' = idb /\ dAlert' \in {"failed", "server"}
       /\ \A l \in iLoaders : \A data \in Failures :
             loadForFarmAnswer(l, data) =>
                /\ idb' = idb
                /\ iLoaders' = iLoaders \ {l}
                /\ ~l.cancelled => iError' \in {"failed", "server"}]_vars

\* a forced call has failed and the entry of the displayed key is still in
\* memory and in the persisted value
C3FailedOverEntry ==
    /\ dAlert \in {"failed", "server"}
    /\ dCalls = {}
    /\ Truthy(Get(dCache, cacheKey(dId, dDates[1], dDates[2])))
    /\ Truthy(idb) /\ Val(idb) = dCache

\* C4: the value a dashboard put leaves persisted holds every entry of the
\* in-memory cache, the put one included; a new dashboard instance reads
\* the persisted value as it is at its mount; and when that read is
\* answered a lookup of each of its keys gives the persisted entry.
C4SaveReload ==
    [][/\ \A c \in dCalls :
             (c \notin dCalls' /\ dCache' # dCache) =>
                /\ Truthy(idb')
                /\ \A k \in KeySet(dCache') : Get(Val(idb'), k) = Get(dCache', k)
       /\ (~dMounted /\ dMounted') => dLoad'.val = idb
       /\ (dLoad.pending /\ ~dLoad'.pending /\ dMounted' /\ Truthy(dLoad.val)) =>
             \A k \in KeySet(Val(dLoad.val)) :
                Get(dCache', k) = Get(Val(dLoad.val), k)]_vars

\* a new dashboard instance, with no event but its mount, displays the
\* entry an earlier session put and persisted
C4ReloadedEntryServed ==
    /\ nEvents = 1
    /\ dAnalytics.src = "cache"
    /\ dAnalytics.val = normalizeAnalytics(Payload(DefaultRange, FALSE))

\* C5: a key of the persisted value is a key of the persisted value after
\* every step: a dashboard mount with its cache load and first flush, a
\* dashboard flush, an insights write.
C5NeverEvicted == [][PersistedKeys \subseteq PersistedKeys']_vars

\* a loadForFarm run of the insights view does its write in this step
InsightsWrites == \E l \in iLoaders : l.pc = "merge" /\ l \notin iLoaders'

\* C6: the persisted value changes only in a step that puts an entry in
\* the dashboard's in-memory cache (or in a write of the insights view); a
\* dashboard mount and a dashboard resolve served from the cache leave it
\* as it was.
C6FlushOnMutationOnly ==
    [][idb' # idb => (dCache' # dCache \/ InsightsWrites)]_vars

\* a NormalizedAnalytics record: every expected series key is an array
IsNormalized(e) ==
    /\ Tag(e) = "obj"
    /\ \A i \in 1..Len(expectedArrays) : IsArray(Get(Val(e), expectedArrays[i]))

\* the entries of the persisted value that this step wrote or replaced
WrittenKeys ==
    IF Truthy(idb')
    THEN {k \in KeySet(Val(idb')) :
             ~Truthy(idb) \/ Get(Val(idb'), k) # Get(Val(idb), k)}
    ELSE {}

\* C7: every entry a step writes into the persisted value is a normalized
\* record, and so is what a dashboard cache hit displays.
C7StoredNormalized ==
    [][/\ \A k \in WrittenKeys : IsNormalized(Get(Val(idb'), k))
       /\ dAnalytics'.src = "cache" => IsNormalized(dAnalytics'.val)]_vars

\* the request of call c was superseded: the instance is gone, or it now
\* shows another farm
Superseded(c) == ~dMounted \/ c.id # dId

\* C8: the answer to a superseded dashboard call, and every step of a
\* cancelled insights run, leaves the displayed analytics as they were.
C8LateIgnored ==
    [][/\ \A c \in dCalls : \A data \in Answers(c.range, FALSE) :
             (fetchAnalyticsDone(c, data) /\ Superseded(c)) => dAnalytics' = dAnalytics
       /\ \A l \in iLoaders :
             (l.cancelled /\ (loadForFarmRead(l)
                              \/ \E data \in Answers(DefaultRange, TRUE) :
                                    loadForFarmAnswer(l, data))) =>
                iAnalytics' = iAnalytics]_vars

\* the ring of both farms as [lng, lat] pairs
CanonicalRing == Arr(<<Pair(7250, 2301), Pair(7251, 2302), Pair(7250, 2303)>>)

\* C9: every request body in flight, of the dashboard and of the insights
\* view, carries the farm's ring as [lng, lat] pairs.
C9CanonicalCoordinates ==
    /\ \A c \in dCalls : c.coordinates = CanonicalRing
    /\ \A l \in iLoaders : l.pc = "call" => insightsBody(l).coordinates = CanonicalRing

\* the keys under which `after` holds an entry that `before` does not
ChangedKeys(before, after) == {k \in KeySet(after) : Get(after, k) # Get(before, k)}

\* the date the provider put in its answer, "auto" when it put none
AnsweredDate(data, field) ==
    IF Has(Val(data), field) THEN Val(Get(Val(data), field)) ELSE "auto"

\* the dashboard stores under farmId_start_end of the request it sent
DashboardKeyOfRequest ==
    \A c \in dCalls : \A data \in Answers(c.range, FALSE) :
       fetchAnalyticsDone(c, data) =>
          ChangedKeys(dCache, dCache') \subseteq {c.id \o <<"_", c.range[1], "_", c.range[2]>>}

\* what the insights write merged its entry into
MergedInto(l) == IF Truthy(l.snap) THEN Val(l.snap) ELSE <<>>

\* C10 (as the code has it): the dashboard stores an entry under
\* farmId_start_end of the request that produced it; the insights view,
\* whose request names no dates, stores under farmId and the start and end
\* date of the answer, "auto" for each date the answer does not carry.
C10KeyOfEntry ==
    [][/\ DashboardKeyOfRequest
       /\ \A l \in iLoaders :
             loadForFarmSave(l, clock + 1) =>
                ChangedKeys(MergedInto(l), Val(idb')) =
                   {l.id \o <<"_", AnsweredDate(l.data, "start_date"),
                              "_", AnsweredDate(l.data, "end_date")>>}]_vars

\* the insights view has stored, in this run, an answer under the dates
\* the provider gave, and the dashboard an answer under its request's
C10StoredUnderDates ==
    /\ Truthy(idb)
    /\ \E fid \in FarmIds : SavedAt(Get(Val(idb), fid \o <<"_", "d1", "_", "d2">>)) > 2
    /\ \E fid \in FarmIds : IsNormalized(Get(Val(idb), fid \o <<"_", "d1", "_", "d2">>))

\* C10 (as stated): every entry is stored under farmId_start_end of the
\* request, "auto" for each date the request omits - both, for the
\* insights view.
C10KeyOfRequest ==
    [][/\ DashboardKeyOfRequest
       /\ \A l \in iLoaders :
             loadForFarmSave(l, clock + 1) =>
                ChangedKeys(MergedInto(l), Val(idb')) =
                   {l.id \o <<"_", "auto", "_", "auto">>}]_vars

(***************************************************************************)
(* The normalizers on their own: one provider payload is drawn, and each   *)
(* normalizer is applied to it                                             *)
(***************************************************************************)
\* the accepted names of each family, and a name that is none of them
familyNames ==
    [temperature |-> <<"temp", "temperature">>,
     soil_temperature |-> <<"soil_temp", "st">>,
     canopy_temperature |-> <<"canopy_temp">>,
     rainfall |-> <<"rain_mm", "rain">>]

outKeys ==
    [temperature |-> "temp", soil_temperature |-> "soil_temp",
     canopy_temperature |-> "canopy_temp", rainfall |-> "rain_mm"]

Families == DOMAIN familyNames
TempFamilies == Families \ {"rainfall"}
OtherName == "value"

NamesOf(f) == {familyNames[f][i] : i \in 1..Len(familyNames[f])} \cup {OtherName}

\* 300, 25, 100 and 100.01 in hundredths, zero, and values that are no number
NumericValues == {Num(30000), Num(2500), Num(10000), Num(10001), Num(0)}
SampleValues == NumericValues \cup {Null, Str("n/a")}

SampleDate == Str("d1")

\* samples with a date and one value field
OneFieldSamples(f) ==
    {Obj(<< <<"date", SampleDate>>, <<n, v>> >>) : n \in NamesOf(f), v \in SampleValues}

\* samples with two value fields in either key order, the date between them
TwoFieldSamples(f) ==
    {Obj(<< <<n1, v1>>, <<"date", SampleDate>>, <<n2, v2>> >>) :
        n1 \in NamesOf(f), n2 \in NamesOf(f),
        v1 \in {Num(30000), Str("n/a")}, v2 \in {Num(2500)}} \ 
    {Obj(<< <<n, v1>>, <<"date", SampleDate>>, <<n, v2>> >>) :
        n \in NamesOf(f), v1 \in {Num(30000), Str("n/a")}, v2 \in {Num(2500)}}

\* samples that are no objects, and an object with a date alone
OddSamples == {Null, Num(500), Str("x"), Obj(<< <<"date", SampleDate>> >>)}

SamplesOf(f) == OneFieldSamples(f) \cup TwoFieldSamples(f) \cup OddSamples

\* payloads with one family present, as a one-sample series or as no array
FamilyPayloads ==
    UNION {{Obj(<< <<f, Arr(<<d>>)>> >>) : d \in SamplesOf(f)} : f \in Families}
    \cup {Obj(<< <<f, v>> >>) : f \in Families, v \in {Null, Str("x"), Num(500), Obj(<<>>)}}

\* rainfall series of two samples
RainPayloads ==
    {Obj(<< <<"rainfall", Arr(<<d1, d2>>)>> >>) :
        d1 \in {Obj(<< <<"date", SampleDate>>, <<"rain_mm", Num(250)>> >>),
                Obj(<< <<"date", SampleDate>>, <<"rain", Num(100)>> >>)},
        d2 \in {Obj(<< <<"date", SampleDate>>, <<"precip", Num(50)>> >>),
                Obj(<< <<"date", SampleDate>>, <<"rain_mm", Null>> >>)}}

\* payloads that carry none of the metric keys
BarePayloads ==
    {Obj(<<>>), Obj(<< <<"farm", Str("f")>> >>), Obj(<< <<"growth_stage", Str("tillering")>> >>),
     Obj(<< <<"timestamp", Str("t")>>, <<"elevation_m", Num(12000)>> >>), Arr(<<>>)}

\* payloads that nest or half-fill what the normalizer defaults
NestedPayloads ==
    {Obj(<< <<"weather", Obj(<< <<"temperature",
                 Arr(<< Obj(<< <<"date", SampleDate>>, <<"temp", Num(30000)>> >>) >>)>> >>)>> >>),
     Obj(<< <<"soil", Obj(<< <<"profile", Obj(<< <<"ph", Num(650)>> >>)>> >>)>> >>),
     Obj(<< <<"alerts", Obj(<<>>)>> >>),
     Obj(<< <<"alerts", Obj(<< <<"frost", Arr(<<>>)>> >>)>> >>),
     Obj(<< <<"soil_profile", Str("loam")>> >>),
     Obj(<< <<"ndvi_timeseries", Str("none")>> >>)}

\* payloads that are no objects
NonObjectPayloads == {Null, Undef, Num(500), Str("x")}

\* the series that have a nested place: key, group and name inside the group
promotions ==
    {[key |-> "temperature", group |-> "weather", inner |-> "temperature", field |-> "temp"],
     [key |-> "soil_moisture", group |-> "soil", inner |-> "moisture", field |-> "moisture"],
     [key |-> "soil_temperature", group |-> "soil", inner |-> "temperature", field |-> "soil_temp"]}

\* payloads with a series at the top level (absent, null, empty or of one
\* sample) and a value at its nested place (an array or not)
PromotionPayloads ==
    UNION {{Obj((IF top = Undef THEN <<>> ELSE << <<pr.key, top>> >>)
                \o << <<pr.group, Obj(<< <<pr.inner, nested>> >>)>> >>) :
               top \in {Undef, Null, Arr(<<>>),
                        Arr(<< Obj(<< <<"date", SampleDate>>, <<pr.field, Num(2500)>> >>) >>)},
               nested \in {Arr(<< Obj(<< <<"date", SampleDate>>, <<pr.field, Num(30000)>> >>) >>),
                           Arr(<<>>), Str("x")}} :
           pr \in promotions}

RawInputs ==
    FamilyPayloads \cup RainPayloads \cup BarePayloads \cup NestedPayloads
    \cup NonObjectPayloads \cup PromotionPayloads

NoResult == [by |-> "none", out |-> Undef]

NormalizerInit ==
    /\ idb = Undef
    /\ idbFails = {}
    /\ Unmounted
    /\ arg \in RawInputs
    /\ res = NoResult

\* FarmDashboard's normalizeAnalytics(arg)
NormalizeDashboard ==
    /\ res = NoResult
    /\ res' = [by |-> "dashboard", out |-> normalizeAnalytics(arg)]
    /\ UNCHANGED <<sharedVars, dashVars, insVars, idbFails, arg>>

\* FarmInsights' normalizeAnalytics(arg)
NormalizeInsights ==
    /\ res = NoResult
    /\ res' = [by |-> "insights", out |-> normalizeAnalyticsInsights(arg)]
    /\ UNCHANGED <<sharedVars, dashVars, insVars, idbFails, arg>>

NormalizerNext == NormalizeDashboard \/ NormalizeInsights

NormalizerSpec == NormalizerInit /\ [][NormalizerNext]_vars

\* the dashboard goes on as with an empty cache when its read is rejected:
\* nothing is loaded, the first resolve starts a provider call, no alert
DashboardColdOnFailure ==
    /\ (loadCache /\ dLoad.val = Throw) => (dCache' = dCache /\ dAlert' = dAlert)
    /\ \A f \in dFarmFetch :
          (fetchFarm(f) /\ dIsMounted /\ "get" \in idbFails) =>
             (dCalls' # dCalls /\ dAlert' = "none")

\* a rejected write of the insights view is not shown to the user
InsightsWriteFailureSilent ==
    \A l \in iLoaders :
       (loadForFarmSave(l, clock + 1) /\ (l.snap = Throw \/ "set" \in idbFails)) =>
          (iError' = iError /\ idb' = idb)

\* C11: when a read or a write of the persisted value is rejected, each
\* view goes on as with an empty cache: the resolve goes on to the provider
\* call and no error is shown to the user.
C11ColdCacheOnFailure ==
    [][/\ DashboardColdOnFailure
       /\ InsightsWriteFailureSilent
       /\ \A l \in iLoaders :
             (loadForFarmRead(l) /\ l.snap = Throw /\ ~l.cancelled) =>
                (iError' = "none" /\ CallsBackend(l))]_vars

(***************************************************************************)
(* Properties of the normalizers                                           *)
(***************************************************************************)
\* the series keys of a NormalizedAnalytics record
SeriesKeys ==
    {"temperature", "soil_temperature", "canopy_temperature", "rainfall",
     "ndvi_timeseries", "evi_timeseries", "gndvi_timeseries", "savi_timeseries",
     "ndwi_timeseries", "msavi_timeseries", "arvi_timeseries", "lai_timeseries",
     "chlorophyll_index", "water_stress_index", "biomass_proxy", "canopy_fraction",
     "soil_moisture"}

\* raw is an object that carries no metric: no series key, no soil_profile,
\* no alerts, and no weather or soil group that could nest one
ContainsNoMetric(raw) ==
    /\ Tag(raw) \in {"obj", "arr"}
    /\ \A k \in KeySet(Spread(raw)) :
          k \notin SeriesKeys \cup {"soil_profile", "alerts", "weather", "soil"}

\* C12: for an input object that contains none of the metric keys (at the
\* top level or nested in weather or soil), the dashboard normalizer's
\* output has each of the 17 series keys as an empty array, soil_profile
\* {} and alerts {frost: [], heat: []}.
C12TotalCoverage ==
    (res.by = "dashboard" /\ ContainsNoMetric(arg)) =>
       /\ Tag(res.out) = "obj"
       /\ \A k \in SeriesKeys : Get(Val(res.out), k) = Arr(<<>>)
       /\ Get(Val(res.out), "soil_profile") = Obj(<<>>)
       /\ Get(Val(res.out), "alerts") = Obj(<< <<"frost", Arr(<<>>)>>, <<"heat", Arr(<<>>)>> >>)

\* the dashboard normalizer has run on a payload with other fields only
C12BareNormalized ==
    /\ res.by = "dashboard"
    /\ ContainsNoMetric(arg)
    /\ Has(Spread(arg), "growth_stage")

ScalarFields ==
    {"growth_stage", "elevation_m", "slope_deg", "aspect_deg",
     "ndvi_trend_slope_per_day", "ml_prediction", "ml_confidence"}

\* raw is an object (arrays included), as the normalizers take it
IsInputObject(raw) == Tag(raw) \in {"obj", "arr"}

\* C13: for every input object the output of the normalizer, of either
\* view, has every scalar field present - null when the source omitted it -
\* soil_profile a mapping, and alerts with a frost list and a heat list.
C13FixedShape ==
    (res.by # "none" /\ IsInputObject(arg)) =>
       /\ Tag(res.out) = "obj"
       /\ \A k \in ScalarFields :
             /\ Has(Val(res.out), k)
             /\ ~Has(Spread(arg), k) => Get(Val(res.out), k) = Null
       /\ Tag(Get(Val(res.out), "soil_profile")) = "obj"
       /\ IsArray(Prop(Get(Val(res.out), "alerts"), "frost"))
       /\ IsArray(Prop(Get(Val(res.out), "alerts"), "heat"))

\* C14: for every raw input - a series that is no array, a series whose
\* samples are numbers, strings or null - the dashboard normalizer does not
\* throw, and for an input object it returns a record with its series as
\* arrays.  (For a payload that is no object the code returns null, which
\* is let pass here.)
C14FailsSoftly ==
    res.by = "dashboard" =>
       /\ res.out # Throw
       /\ IsInputObject(arg) =>
             /\ Tag(res.out) = "obj"
             /\ \A k \in SeriesKeys : IsArray(Get(Val(res.out), k))

\* a payload whose only key is family f, a series of the one sample d
SeriesOfOne(f, d) == Obj(<< <<f, Arr(<<d>>)>> >>)

\* a sample with the date and the one field n of value v
Sample(n, v) == Obj(<< <<"date", SampleDate>>, <<n, v>> >>)

\* C15: in each of the three temperature-like families a sample whose value
\* v is numeric comes out as v - 273.15 when v > 100 and unchanged when
\* v <= 100, exactly 100 included (values in hundredths: 300 -> 26.85,
\* 25 -> 25, 100 -> 100, 100.01 -> -173.14), whichever field name carried it.
C15KelvinInference ==
    res.by = "dashboard" =>
       \A f \in TempFamilies : \A n \in NamesOf(f) : \A v \in NumericValues :
          arg = SeriesOfOne(f, Sample(n, v)) =>
             Get(Val(res.out), f) =
                Arr(<< Sample(outKeys[f],
                              IF Val(v) > KelvinThreshold
                              THEN Num(Val(v) - KelvinOffset) ELSE v) >>)

\* 300 read as Kelvin gives 26.85
C15KelvinConverted ==
    /\ res.by = "dashboard"
    /\ arg = SeriesOfOne("soil_temperature", Sample("st", Num(30000)))
    /\ Get(Val(res.out), "soil_temperature") = Arr(<< Sample("soil_temp", Num(2685)) >>)

\* the value of sample d under the first name of family f's list that d
\* carries, else under d's first field, in key order, that is not the date
\* and holds a number; Null when there is none
ReconciledValue(d, f) ==
    LET fields == Val(d)
        named == {i \in 1..Len(familyNames[f]) : Has(fields, familyNames[f][i])}
        numeric == {i \in 1..Len(fields) :
                       fields[i][1] # "date" /\ Tag(fields[i][2]) = "num"}
    IN IF named # {}
       THEN Get(fields, familyNames[f][CHOOSE i \in named : \A j \in named : i <= j])
       ELSE IF numeric # {}
       THEN fields[CHOOSE i \in numeric : \A j \in numeric : i <= j][2]
       ELSE Null

\* C16: in each temperature-like family the value of a sample is read from
\* the first accepted name the sample carries, else from its first numeric
\* field that is not the date; a sample whose value is null, absent or not a
\* number comes out as {date, <canonical field>: null}.
C16FieldReconciliation ==
    res.by = "dashboard" =>
       \A f \in TempFamilies :
          \A d \in OneFieldSamples(f) \cup TwoFieldSamples(f)
                   \cup {Obj(<< <<"date", SampleDate>> >>)} :
             arg = SeriesOfOne(f, d) =>
                Get(Val(res.out), f) =
                   Arr(<< Sample(outKeys[f],
                                 IF Tag(ReconciledValue(d, f)) = "num"
                                 THEN KelvinToCelsius(ReconciledValue(d, f))
                                 ELSE Null) >>)

\* the rainfall series of a payload that is an object, <<>> when it is no
\* array
RainSeries(payload) ==
    IF Tag(payload) = "obj" /\ IsArray(Get(Val(payload), "rainfall"))
    THEN Val(Get(Val(payload), "rainfall"))
    ELSE <<>>

\* C17: of a rainfall series of sample objects every normalized sample
\* carries rain_mm: a sample with rain_mm passes through as it is, else the
\* value of rain, else the first numeric field that is not the date, comes
\* out under rain_mm with the input date and unconverted (300 stays 300);
\* and the dashboard total is the sum of the rain_mm numbers of the series
\* (a null or missing number counts 0).
C17RainfallRenamed ==
    LET in == RainSeries(arg)
        out == RainSeries(res.out)
    IN (/\ res.by = "dashboard"
        /\ in # <<>>
        /\ \A i \in 1..Len(in) : Tag(in[i]) = "obj") =>
          /\ Len(out) = Len(in)
          /\ \A i \in 1..Len(in) :
                /\ Has(Val(out[i]), "rain_mm")
                /\ Has(Val(in[i]), "rain_mm") => out[i] = in[i]
                /\ ~Has(Val(in[i]), "rain_mm") =>
                      /\ Prop(out[i], "date") = Prop(in[i], "date")
                      /\ Tag(ReconciledValue(in[i], "rainfall")) = "num" =>
                            Prop(out[i], "rain_mm") = ReconciledValue(in[i], "rainfall")
          /\ (\A i \in 1..Len(out) : Tag(Prop(out[i], "rain_mm")) \in {"num", "null", "nan"}) =>
                dashboardTotalRain(res.out) =
                   SumSeq([i \in 1..Len(out) |->
                              IF Tag(Prop(out[i], "rain_mm")) = "num"
                              THEN Prop(out[i], "rain_mm") ELSE Num(0)], 1)

\* rain 1 and precip 0.5 come out as rain_mm 1 and 0.5, the total is 1.5
C17RenamedAndSummed ==
    /\ res.by = "dashboard"
    /\ RainSeries(arg) = << Sample("rain", Num(100)), Sample("precip", Num(50)) >>
    /\ RainSeries(res.out) = << Sample("rain_mm", Num(100)), Sample("rain_mm", Num(50)) >>
    /\ dashboardTotalRain(res.out) = Num(150)

(***************************************************************************)
(* parseCoords on its own: an input is given and resolved                  *)
(***************************************************************************)
\* sequences of numeric pairs: a first pair on and around the bounds of the
\* heuristic, followed by none, one or two pairs
PairRings ==
    {Arr(<<Pair(a, b)>> \o tail) :
        a \in {-9001, -9000, 2301, 9000, 9001, 17200},
        b \in {-18001, -18000, 4000, 7250, 18000, 18001},
        tail \in {<<>>, <<Pair(2302, 7251), Pair(2303, 7250)>>,
                  <<Pair(17200, 4000)>>}}

\* sequences of up to three {lat, lng} objects, one with the keys the other
\* way round
PointRings ==
    LET points == {Point(2301, 7250), Point(2302, 7251),
                   Obj(<< <<"lng", Num(-7250)>>, <<"lat", Num(-2303)>> >>)}
    IN {Arr(<<>>)} \cup {Arr(<<p>>) : p \in points}
       \cup {Arr(<<p, q>>) : p \in points, q \in points}
       \cup {Arr(<<p, q, r>>) : p \in points, q \in points, r \in points}

\* inputs that hold no coordinates: texts without numeric pairs, arrays of
\* null or of bare numbers, an object without latitude and longitude
Unparseable ==
    {Str("north"), Str("north,east"), Str("[null]"), Str("null"),
     Arr(<<Null>>), Arr(<<Null, Null>>), Arr(<<Num(500)>>), Arr(<<Num(500), Num(600)>>),
     Obj(<<>>), Obj(<< <<"name", Str("f")>> >>), Obj(<< <<"latitude", Num(2301)>> >>)}

\* the other stored shapes and values
OtherCoords ==
    {Null, Undef, Num(500), Str(""),
     Str("[[23.01,72.5],[23.02,72.51]]"), Str("23.01,72.5;23.02,72.51"),
     Obj(<< <<"latitude", Num(2301)>>, <<"longitude", Num(7250)>> >>),
     Arr(<< Obj(<< <<"latitude", Num(2301)>>, <<"longitude", Num(7250)>> >>) >>),
     Arr(<< Obj(<< <<"latitude", Num(2301)>>, <<"longitude", Num(7250)>> >>),
            Obj(<< <<"longitude", Num(17200)>>, <<"latitude", Num(-4000)>> >>) >>),
     Arr(<< Obj(<< <<"x", Num(2301)>>, <<"y", Num(7250)>> >>), Obj(<< <<"x", Num(2301)>> >>) >>),
     Arr(<< Point(2301, 7250), Null >>),
     Arr(<< Pair(2301, 7250), Null >>),
     Arr(<< Arr(<<Str("n/a"), Num(7250)>>) >>)}

CoordInputs == PairRings \cup PointRings \cup Unparseable \cup OtherCoords

ResolverInit ==
    /\ idb = Undef
    /\ idbFails = {}
    /\ Unmounted
    /\ arg \in CoordInputs
    /\ res = NoResult

\* parseCoords(arg)
Resolve ==
    /\ res = NoResult
    /\ res' = [by |-> "parseCoords", out |-> parseCoords(arg)]
    /\ UNCHANGED <<sharedVars, dashVars, insVars, idbFails, arg>>

\* FarmInsights' normalizeToLatLngArray(arg)
ResolveInsights ==
    /\ res = NoResult
    /\ res' = [by |-> "normalizeToLatLngArray", out |-> normalizeToLatLngArray(arg)]
    /\ UNCHANGED <<sharedVars, dashVars, insVars, idbFails, arg>>

ResolverNext == Resolve \/ ResolveInsights

ResolverSpec == ResolverInit /\ [][ResolverNext]_vars

\* C18: of a sequence of numeric pairs only the first pair (a, b) decides:
\* with a in [-90, 90] and b in [-180, 180] every pair comes out swapped,
\* otherwise every pair comes out as it is.
C18AxisOrder ==
    \A ring \in PairRings :
       (res.by = "parseCoords" /\ arg = ring) =>
          LET cs == Val(ring)
              a == Val(Val(cs[1])[1])
              b == Val(Val(cs[1])[2])
              latFirst == a >= -9000 /\ a <= 9000 /\ b >= -18000 /\ b <= 18000
          IN res.out = Arr([i \in 1..Len(cs) |->
                               IF latFirst
                               THEN Arr(<<Val(cs[i])[2], Val(cs[i])[1]>>)
                               ELSE cs[i]])

\* [[23.01,72.50],[23.02,72.51],[23.03,72.50]] gives
\* [[72.50,23.01],[72.51,23.02],[72.50,23.03]]
C18LatFirstSwapped ==
    /\ res.by = "parseCoords"
    /\ arg = Arr(<<Pair(2301, 7250), Pair(2302, 7251), Pair(2303, 7250)>>)
    /\ res.out = Arr(<<Pair(7250, 2301), Pair(7251, 2302), Pair(7250, 2303)>>)

\* C19: parseCoords returns, without throwing, for every input, and for an
\* input that holds no coordinates (a text without numeric pairs, an array
\* of null or of bare numbers, an object without latitude and longitude) it
\* returns the empty sequence.
C19NeverThrows ==
    res.by = "parseCoords" =>
       /\ res.out # Throw
       /\ (\E u \in Unparseable : arg = u) => res.out = Arr(<<>>)

\* C20: a sequence of {lat, lng} objects comes out with the same length and
\* order, its i-th element [lng_i, lat_i]; swapping each pair back gives the
\* (lat, lng) values of the input.
C20ObjectsSwapped ==
    \A ring \in PointRings :
       (res.by = "parseCoords" /\ arg = ring) =>
          /\ Tag(res.out) = "arr"
          /\ Len(Val(res.out)) = Len(Val(ring))
          /\ \A i \in 1..Len(Val(ring)) :
                /\ Val(res.out)[i] =
                      Arr(<<Prop(Val(ring)[i], "lng"), Prop(Val(ring)[i], "lat")>>)
                /\ <<Val(Val(res.out)[i])[2], Val(Val(res.out)[i])[1]>> =
                      <<Prop(Val(ring)[i], "lat"), Prop(Val(ring)[i], "lng")>>

\* the ring the drawing form saves comes out as [lng, lat] pairs
C20DrawnRingSwapped ==
    /\ res.by = "parseCoords"
    /\ arg = Arr(<<Point(2301, 7250), Point(2302, 7251),
                   Obj(<< <<"lng", Num(-7250)>>, <<"lat", Num(-2303)>> >>)>>)
    /\ res.out = Arr(<<Pair(7250, 2301), Pair(7251, 2302), Pair(-7250, -2303)>>)

\* the stored shapes both resolvers accept: numeric pairs in either order,
\* {lat, lng} objects, {latitude, longitude} objects, a single point
SharedShapes ==
    PairRings \cup PointRings \cup
    {c \in OtherCoords :
        \/ In("latitude", c) /\ In("longitude", c)
        \/ Tag(c) = "arr" /\ \A i \in 1..Len(Val(c)) :
              In("latitude", Val(c)[i]) /\ In("longitude", Val(c)[i])}

\* each pair of a ring the other way round
SwapPairs(ring) ==
    Arr([i \in 1..Len(Val(ring)) |-> Arr(<<Val(Val(ring)[i])[2], Val(Val(ring)[i])[1]>>)])

\* C26: for every stored shape both resolvers accept, what
\* normalizeToLatLngArray returns is what parseCoords returns with the two
\* axes of each pair swapped.
C26ResolversAgree ==
    \A c \in SharedShapes :
       (res.by = "normalizeToLatLngArray" /\ arg = c) =>
          res.out = SwapPairs(parseCoords(c))

\* a ring of (lng, lat) pairs comes out as (lat, lng) pairs of the insights
\* view and is left as it is by the dashboard
C26LngFirstRing ==
    /\ res.by = "normalizeToLatLngArray"
    /\ arg = Arr(<<Pair(17200, 4000), Pair(2302, 7251), Pair(2303, 7250)>>)
    /\ res.out = Arr(<<Pair(4000, 17200), Pair(7251, 2302), Pair(7250, 2303)>>)
    /\ parseCoords(arg) = arg

(***************************************************************************)
(* soilPoints on its own: an analytics state and a farm are given and the  *)
(* points of the map are derived                                           *)
(***************************************************************************)
\* analytics states: per-point samples with and without coordinates, with
\* and without a moisture value (0.30 is 30), as objects and as [lng, lat]
\* arrays; soil samples; a moisture series; each list present or not
AnalyticsStates ==
    LET Field(k, v) == IF v = Undef THEN <<>> ELSE << <<k, v>> >>
        bare == Obj(<< <<"moisture", Num(30)>> >>)
        pointSamples ==
           {Obj(<< <<"lat", Num(2301)>>, <<"lng", Num(7250)>>, <<"moisture", Num(30)>> >>),
            Obj(<< <<"lat", Num(2301)>>, <<"lng", Num(7250)>> >>),
            Obj(<< <<"lat", Num(2301)>>, <<"lng", Num(7250)>>, <<"moisture", Str("n/a")>> >>),
            Obj(<< <<"latitude", Num(2302)>>, <<"longitude", Num(7251)>>, <<"value", Num(0)>> >>),
            Arr(<<Num(7250), Num(2301)>>),
            bare,
            Obj(<< <<"lat", Str("n/a")>>, <<"lng", Num(7250)>>, <<"moisture", Num(30)>> >>),
            Null}
        pointLists ==
           {Undef, Arr(<<>>)} \cup {Arr(<<p>>) : p \in pointSamples}
           \cup {Arr(<<bare, q>>) : q \in pointSamples}
        sampleLists ==
           {Undef, Arr(<<>>),
            Arr(<< Obj(<< <<"lat", Num(2301)>>, <<"lng", Num(7250)>>, <<"moisture", Num(30)>> >>) >>),
            Arr(<< Obj(<< <<"location", Obj(<< <<"lat", Num(2301)>>, <<"lng", Num(7250)>> >>)>>,
                          <<"sample_date", Str("d1")>> >>) >>),
            Arr(<< Obj(<< <<"moisture_value", Num(30)>> >>) >>)}
        moistureSeries ==
           {Undef, Arr(<<>>), Num(30),
            Arr(<< Obj(<< <<"date", Str("d1")>>, <<"moisture", Num(20)>> >>),
                   Obj(<< <<"date", Str("d2")>>, <<"moisture", Num(40)>> >>) >>),
            Arr(<< Num(20), Obj(<< <<"date", Str("d1")>>, <<"value", Str("n/a")>> >>), Null >>)}
    IN {Null} \cup
       {Obj(Field("soil_moisture_points", ps) \o Field("soil_samples", ss)
            \o Field("soil_moisture", ms)) :
           ps \in pointLists, ss \in sampleLists, ms \in moistureSeries}

\* farms: none, one without a vertex, rings of two vertices
Farms ==
    {Null, Obj(<< <<"coordinates", Arr(<<>>)>> >>),
     Obj(<< <<"coordinates", Arr(<<Point(2300, 7250), Point(2302, 7252)>>)>> >>),
     Obj(<< <<"coordinates", Arr(<<Pair(2300, 7250), Pair(2302, 7252)>>)>> >>)}

DeriverInit ==
    /\ idb = Undef
    /\ idbFails = {}
    /\ Unmounted
    /\ arg \in [analytics : AnalyticsStates, farm : Farms]
    /\ res = NoResult

\* the soilPoints memo of FarmInsights
DerivePoints ==
    /\ res = NoResult
    /\ res' = [by |-> "soilPoints", out |-> soilPoints(arg.analytics, arg.farm)]
    /\ UNCHANGED <<sharedVars, dashVars, insVars, idbFails, arg>>

DeriverSpec == DeriverInit /\ [][DerivePoints]_vars

(***************************************************************************)
(* Properties of the soil points                                           *)
(***************************************************************************)
\* the list under key k of the analytics state, <<>> when there is none
ListOf(analytics, k) ==
    IF IsArray(OptProp(analytics, k)) THEN Val(OptProp(analytics, k)) ELSE <<>>

\* an input point that carries a latitude and a longitude that are numbers,
\* under any of the accepted names or as a [lng, lat] array
Located(p) ==
    /\ Tag(p) \in {"obj", "arr"}
    /\ Tag(Coalesce(Coalesce(Coalesce(Prop(p, "lat"), Prop(p, "latitude")),
                             OptProp(Prop(p, "location"), "lat")), Index(p, 1))) = "num"
    /\ Tag(Coalesce(Coalesce(Coalesce(Prop(p, "lng"), Prop(p, "longitude")),
                             OptProp(Prop(p, "location"), "lng")), Index(p, 0))) = "num"

\* the vertices of the farm's polygon as the insights view reads them
Vertices(farm) == normalizeToLatLngArray(OptProp(farm, "coordinates"))

\* C21: the derived points are those of the per-point samples when some of
\* them have coordinates, else those of the soil-sample list when some of
\* them have coordinates, else - the polygon having a vertex - exactly one
\* point at the mean of the vertices with the mean of the moisture series.
C21FallbackChain ==
    res.by = "soilPoints" =>
       LET points == SelectSeq(ListOf(arg.analytics, "soil_moisture_points"), Located)
           samples == SelectSeq(ListOf(arg.analytics, "soil_samples"), Located)
       IN /\ points # <<>> =>
                res.out = Arr([i \in 1..Len(points) |-> PointOfMoisture(points[i])])
          /\ (points = <<>> /\ samples # <<>>) =>
                res.out = Arr([i \in 1..Len(samples) |-> PointOfSample(samples[i])])
          /\ (points = <<>> /\ samples = <<>> /\ HasLength(Vertices(arg.farm))) =>
                res.out = Arr(<< SoilPoint(Val(centroidOfLatLngs(Vertices(arg.farm)))[1],
                                           Val(centroidOfLatLngs(Vertices(arg.farm)))[2],
                                           AverageMoisture(arg.analytics), Null) >>)

\* the moisture an input point carries under any of the accepted names
RawMoisture(p) ==
    Coalesce(Coalesce(Coalesce(Prop(p, "moisture"), Prop(p, "value")), Prop(p, "m")),
             Prop(p, "moisture_value"))

\* the input points that are drawn: the per-point samples when there are
\* any with coordinates, else the soil samples
DrawnInputs ==
    LET points == SelectSeq(ListOf(arg.analytics, "soil_moisture_points"), Located)
    IN IF points # <<>> THEN points
       ELSE SelectSeq(ListOf(arg.analytics, "soil_samples"), Located)

\* C22: every input point that has coordinates and no moisture value that is
\* a number is in the output, at its place in the list, with moisture null.
C22UnknownMoistureNull ==
    (res.by = "soilPoints" /\ DrawnInputs # <<>>) =>
       /\ Tag(res.out) = "arr"
       /\ Len(Val(res.out)) = Len(DrawnInputs)
       /\ \A i \in 1..Len(DrawnInputs) :
             Tag(RawMoisture(DrawnInputs[i])) # "num" =>
                Prop(Val(res.out)[i], "moisture") = Null

\* the series under key that the dashboard normalizer makes of the array
\* series when it is the payload's top-level series
NormalizedAlone(key, series) ==
    Get(Val(normalizeAnalytics(Obj(<< <<key, series>> >>))), key)

\* C27: for temperature, soil_moisture and soil_temperature, when the
\* top-level series is absent or empty and the nested place holds an array
\* the output series is built from the nested array; when the top-level
\* series is a non-empty array the output is built from it and the nested
\* array is not used.
C27LocationPromotion ==
    \A pr \in promotions :
       (/\ res.by = "dashboard"
        /\ Tag(arg) = "obj"
        /\ In(pr.group, arg)
        /\ IsArray(Prop(Get(Val(arg), pr.group), pr.inner))) =>
          LET top == Get(Val(arg), pr.key)
              nested == Prop(Get(Val(arg), pr.group), pr.inner)
          IN /\ (top \in {Undef, Null} \/ top = Arr(<<>>)) =>
                   Get(Val(res.out), pr.key) = NormalizedAlone(pr.key, nested)
             /\ (IsArray(top) /\ top # Arr(<<>>)) =>
                   Get(Val(res.out), pr.key) = NormalizedAlone(pr.key, top)

\* soil.temperature holds 300 K and there is no top-level series: the output
\* soil_temperature is 26.85
C27NestedPromoted ==
    /\ res.by = "dashboard"
    /\ arg = Obj(<< <<"soil", Obj(<< <<"temperature",
                 Arr(<< Obj(<< <<"date", SampleDate>>, <<"soil_temp", Num(30000)>> >>) >>)>> >>)>> >>)
    /\ Get(Val(res.out), "soil_temperature") =
          Arr(<< Obj(<< <<"date", SampleDate>>, <<"soil_temp", Num(2685)>> >>) >>)

\* C23: a flush of the dashboard writes its in-memory cache over the whole
\* persisted value: every persisted key the in-memory cache lacks - an
\* entry the insights view persisted after the dashboard loaded its
\* snapshot - is gone from the persisted store after the flush.
C23StaleOverwrite ==
    [][(idb' # idb /\ ~InsightsWrites) =>
          /\ idb' = Obj(dCache')
          /\ \A k \in PersistedKeys \ KeySet(dCache') : k \notin PersistedKeys']_vars

\* the insights view persisted an entry in this session (the clock moved),
\* the dashboard has loaded its snapshot and flushed a cache that is not
\* empty, and the entry with the stamp of that write is not persisted
C23InsightsEntryLost ==
    /\ clock > 2
    /\ dMounted /\ ~dLoad.pending
    /\ dCache # <<>>
    /\ idb = Obj(dCache)
    /\ \A k \in KeySet(dCache) : Prop(Get(dCache, k), "_cached_at_ts") # Num(clock)


\* the key both views ask for in BothInFlight
RaceKey == cacheKey(F1, DefaultRange[1], DefaultRange[2])

\* C24 (as amended): the two requests for one key are two provider calls, and
\* the request that completes with a write leaves its own entry persisted
\* under its key at that moment: the dashboard's normalized response, or the
\* insights view's wrapped response with the stamp of its save (the step
\* that moves the clock)
C24LastWriteWins ==
    [][/\ \A c \in dCalls \ dCalls' :
            dCache' # dCache => /\ Has(dCache', c.key)
                                /\ Get(Val(idb'), c.key) = Get(dCache', c.key)
       /\ \A l \in iLoaders \ iLoaders' :
            (l.pc = "merge" /\ clock' # clock /\ l.snap # Throw) =>
                Get(Val(idb'), insightsKey(l.id, l.data)) = wrapEntry(clock', l.data)]_vars

\* C24's case: no user event since both calls were in flight, the dashboard
\* stored its response and the insights view saved second, so the persisted
\* entry of the key is the wrapped one
C24InsightsSecond ==
    /\ nEvents = 0
    /\ dCalls = {} /\ iLoaders = {}
    /\ Has(dCache, RaceKey)
    /\ Prop(Get(Val(idb), RaceKey), "_cached_at_ts") = Num(clock)
    /\ clock > 2

\* C24 as stated: once both requests are complete, the persisted entry of the
\* key stays the one of the second writer in every step that completes no
\* request
C24SecondWriterKept ==
    [][(/\ dCalls = {} /\ dCalls' = {}
        /\ \A l \in iLoaders \cup iLoaders' : l.pc = "read"
        /\ Has(dCache, RaceKey)
        /\ Prop(Get(Val(idb), RaceKey), "_cached_at_ts") = Num(clock)
        /\ clock > 2)
          => Get(Val(idb'), RaceKey) = Get(Val(idb), RaceKey)]_vars


\* C25: the dashboard on screen has at most one provider call in flight, and
\* while one is in flight `loading` is true, which is what disables the
\* Update and Refresh buttons
C25OneInFlight ==
    dMounted => /\ Cardinality(dCalls) <= 1
                /\ dCalls # {} => dLoading


(***************************************************************************)
(* The saved entry the insights view serves, over the values the two views *)
(* can leave persisted                                                     *)
(***************************************************************************)
\* how many entries a persisted value of ChooserSpec holds
MaxSaved == 2

\* entries as the views save them: the dashboard's normalized response for
\* each range, the insights view's wrapper with its save stamp, and a wrapper whose response
\* carries a timestamp of its own (1500 ms, between the two save stamps)
SavedEntries ==
    {normalizeAnalytics(Payload(r, FALSE)) : r \in DateRanges} \cup
    { wrapEntry(1, Payload(DefaultRange, TRUE)),
      wrapEntry(2, Payload(DefaultRange, FALSE)),
      wrapEntry(1, Obj(<< <<"timestamp", <<"date", 1500>> >> >>)) }

\* keys as the views build them, for both farms
SavedKeys ==
    {cacheKey(fid, r[1], r[2]) : fid \in FarmIds, r \in DateRanges}
      \cup {insightsKey(F1, Payload(DefaultRange, FALSE))}

\* persisted values: up to MaxSaved entries under distinct keys, in the
\* order the keys were created
SavedCaches ==
    UNION {{c \in [1..n -> SavedKeys \X SavedEntries] :
                \A i, j \in 1..n : i # j => c[i][1] # c[j][1]} : n \in 1..MaxSaved}

ChooserInit ==
    /\ idb = Undef
    /\ idbFails = {}
    /\ Unmounted
    /\ arg \in [saved : {Obj(c) : c \in SavedCaches}, id : FarmIds]
    /\ res = NoResult

\* loadForFarm's choice among the saved entries of farm arg.id
ChooseEntry ==
    /\ res = NoResult
    /\ res' = [by |-> "servedEntry", out |-> servedEntry(arg.saved, arg.id)]
    /\ UNCHANGED <<sharedVars, dashVars, insVars, idbFails, arg>>

ChooserSpec == ChooserInit /\ [][ChooseEntry]_vars

\* the positions, among the farm's keys, of the entries that carry a stamp
Stamped(cache, keys) ==
    {i \in 1..Len(keys) : Tag(stampOf(Get(cache, keys[i]))) = "num"}

\* C28: among the saved entries whose key belongs to the viewed farm the
\* insights view serves one with the greatest timestamp, and when none of
\* them carries a timestamp it serves the entry under the last created key
C28EntryChoice ==
    res.by = "servedEntry" =>
        LET cache == Val(arg.saved)
            keys == candidateKeys(cache, arg.id)
            stamped == Stamped(cache, keys)
        IN Len(keys) > 0 =>
             IF stamped = {}
             THEN res.out = Get(cache, keys[Len(keys)])
             ELSE \E i \in stamped :
                    /\ res.out = Get(cache, keys[i])
                    /\ \A j \in stamped : Val(stampOf(Get(cache, keys[j])))
                                            <= Val(stampOf(Get(cache, keys[i])))


\* key k was built for farm fid: fid, "_", a start, "_", an end
StoredFor(k, fid) == Len(k) = Len(fid) + 4 /\ startsWith(k, fid \o <<"_">>)

\* C29: what the insights view opened for a farm shows from the shared cache
\* is an entry that was stored for that farm, never one stored for another
\* farm, also when the other farm's id is this farm's id followed by "_..."
C29FarmIsolation ==
    [][\A l \in iLoaders :
         (l.pc = "read" /\ ~l.cancelled /\ iMounted' /\ iAnalytics' # iAnalytics) =>
            \E k \in KeySet(Val(l.snap)) :
               /\ StoredFor(k, l.id)
               /\ iAnalytics' = normalizeAnalyticsInsights(responseOf(Get(Val(l.snap), k)))]_vars


\* C30: when every pending call settles, a view that shows loading and
\* stays on screen comes to loading = false, whatever the outcome of the
\* resolve
C30LoadingEnds ==
    /\ (dMounted /\ dLoading) ~> (~dMounted \/ ~dLoading)
    /\ (iMounted /\ iLoading) ~> (~iMounted \/ ~iLoading)

\* C30's case: both views are on screen with nothing pending and loading
\* false, the dashboard after a provider-reported error and the insights
\* view after a transport failure
C30EndedAfterFailures ==
    /\ dMounted /\ ~dLoading /\ dCalls = {} /\ dFarmFetch = {} /\ dAlert = "server"
    /\ iMounted /\ ~iLoading /\ iLoaders = {} /\ iFarmFetch = {} /\ iError = "failed"

=============================================================================
